---- MODULE Spec2Model ----
(***************************************************************************)
(* Layer 3 analytical pipeline of climate-tech-news-scrapers:              *)
(*   layer3_discovery_patterns.py   DiscoveryPatternAnalyzer               *)
(*   layer3_investment_timing.py    InvestmentTimingPredictor              *)
(*   layer3_market_trends.py        MarketTrendForecaster                  *)
(*   layer3b_investment_optimizer.py InvestmentStrategyOptimizer           *)
(* The deals_new table is the variable store; every public operation is    *)
(* an action that reads it and leaves its return value in result.          *)
(* Python floats are modelled as exact rationals <<numerator, denominator>>;*)
(* where double precision rounds an int() the other way, a table says so.   *)
(***************************************************************************)
EXTENDS Integers, Sequences, FiniteSets, TLC

VARIABLES store, pc, call, result, today, previous,
          sources, content_fingerprints, attempt_log, submitted,
          status, models, status_log

\* the SourceIntelligenceManager object, with the calls made on it
manager == <<sources, content_fingerprints, attempt_log, submitted>>

\* the AI processor: the status column of deals_new, the loaded models, the status
\* updates issued
processor == <<status, models, status_log>>

vars == <<store, pc, call, result, today, previous, manager, processor>>

(* ------------------------------ bounds --------------------------------- *)
\* rows of deals_new in the timing / discovery specifications
MaxRecords == 2
\* rows of deals_new in the portfolio specifications
MaxPortfolioRecords == 4
\* distinct company ids
MaxCompanies == 4
\* calendar days the clock can advance
MaxDay == 2
\* calls of record_scrape_attempt
MaxAttempts == 3
\* calls of process_discoveries
MaxBatches == 2
\* discoveries in one batch
MaxBatchLen == 2
\* last day of a long-running manager
MaxClock == 9
\* opportunity scores of the recommendation grid are k / ScoreSteps
ScoreSteps == 20

(* --------------------------- exact arithmetic -------------------------- *)
RECURSIVE GCD(_, _)
GCD(a, b) == IF b = 0 THEN a ELSE GCD(b, a % b)

Abs(x) == IF x < 0 THEN -x ELSE x

\* the rational n/d in lowest terms, d > 0
Rat(n, d) == IF n = 0 THEN <<0, 1>>
             ELSE LET g == GCD(Abs(n), d) IN <<n \div g, d \div g>>

RInt(n) == <<n, 1>>
REq(a, b) == Rat(a[1], a[2]) = Rat(b[1], b[2])
RAdd(a, b) == LET g == GCD(a[2], b[2])
              IN  Rat(a[1] * (b[2] \div g) + b[1] * (a[2] \div g), (a[2] \div g) * b[2])
RSub(a, b) == RAdd(a, <<-b[1], b[2]>>)
RMul(a, b) == LET g == GCD(Abs(a[1]), b[2])
                  h == GCD(Abs(b[1]), a[2])
              IN  Rat((a[1] \div g) * (b[1] \div h), (a[2] \div h) * (b[2] \div g))
\* a / b for b > 0
RDiv(a, b) == Rat(a[1] * b[2], a[2] * b[1])
RLt(a, b) == a[1] * b[2] < b[1] * a[2]
RLe(a, b) == a[1] * b[2] <= b[1] * a[2]
RMin(a, b) == IF RLe(a, b) THEN a ELSE b
RMax(a, b) == IF RLe(b, a) THEN a ELSE b

RECURSIVE RSum(_)
RSum(s) == IF s = <<>> THEN <<0, 1>> ELSE RAdd(Head(s), RSum(Tail(s)))

\* Python int(x): truncation toward zero
Trunc(a) == IF a[1] >= 0 THEN a[1] \div a[2] ELSE -((-a[1]) \div a[2])

MinInt(a, b) == IF a <= b THEN a ELSE b
MaxInt(a, b) == IF a >= b THEN a ELSE b

Range(s) == {s[i] : i \in DOMAIN s}
Take(s, n) == SubSeq(s, 1, MinInt(n, Len(s)))

(* ------------------------------ text ----------------------------------- *)
(* raw_text_content is a sequence of phrases (separated by ". " in the     *)
(* text).  Scan(p) tabulates, for each phrase of the sample corpus, what   *)
(* Python's substring test (keyword in content.lower()) and the regular    *)
(* expressions of the source find in it:                                   *)
(*   kw    the keywords of all keyword lists that occur in the phrase,     *)
(*   trl   the number captured by each of the four TRL patterns (0: none), *)
(*   firms the matches of each of the two VC-firm patterns.                *)
PhraseSet ==
  {"battery storage for the grid",
   "lithium battery storage on the grid",
   "solar photovoltaic pv modules",
   "hydrogen fuel cell electrolysis",
   "offshore wind turbine",
   "nuclear fusion tokamak plasma",
   "quantum computing",
   "biofuel from biomass",
   "software platform",
   "TRL 7",
   "TRL 2",
   "TRL 5",
   "TRL 9",
   "TRL 12",
   "demonstration pilot",
   "under development",
   "laboratory research",
   "funded by DOE and NREL",
   "Khosla Ventures",
   "Breakthrough Energy Ventures",
   "Lowercarbon Capital",
   "a breakthrough innovative result",
   "advanced efficient clean manufacturing at scale",
   "delay and concern over a problem",
   "direct air capture ccus carbon capture",
   "power grid upgrade",
   "small modular reactor",
   "Acme raised a seed round",
   "green marketing automation"}

Scan(p) ==
  CASE p = "battery storage for the grid" ->
       [kw |-> {"battery", "grid", "storage"},
        trl |-> <<0, 0, 0, 0>>, firms |-> <<<<>>, <<>>>>]
    [] p = "lithium battery storage on the grid" ->
       [kw |-> {"battery", "grid", "lithium", "storage"},
        trl |-> <<0, 0, 0, 0>>, firms |-> <<<<>>, <<>>>>]
    [] p = "solar photovoltaic pv modules" ->
       [kw |-> {"ai", "photovoltaic", "pv", "solar"},
        trl |-> <<0, 0, 0, 0>>, firms |-> <<<<>>, <<>>>>]
    [] p = "hydrogen fuel cell electrolysis" ->
       [kw |-> {"electrolysis", "fuel cell", "hydrogen"},
        trl |-> <<0, 0, 0, 0>>, firms |-> <<<<>>, <<>>>>]
    [] p = "offshore wind turbine" ->
       [kw |-> {"offshore wind", "turbine", "wind", "wind turbine"},
        trl |-> <<0, 0, 0, 0>>, firms |-> <<<<>>, <<>>>>]
    [] p = "nuclear fusion tokamak plasma" ->
       [kw |-> {"fusion", "nuclear", "nuclear fusion", "plasma", "tokamak"},
        trl |-> <<0, 0, 0, 0>>, firms |-> <<<<>>, <<>>>>]
    [] p = "quantum computing" ->
       [kw |-> {"quantum", "quantum computing"},
        trl |-> <<0, 0, 0, 0>>, firms |-> <<<<>>, <<>>>>]
    [] p = "biofuel from biomass" ->
       [kw |-> {"biofuel", "biomass"},
        trl |-> <<0, 0, 0, 0>>, firms |-> <<<<>>, <<>>>>]
    [] p = "software platform" ->
       [kw |-> {},
        trl |-> <<0, 0, 0, 0>>, firms |-> <<<<>>, <<>>>>]
    [] p = "TRL 7" ->
       [kw |-> {},
        trl |-> <<7, 0, 0, 0>>, firms |-> <<<<>>, <<>>>>]
    [] p = "TRL 2" ->
       [kw |-> {},
        trl |-> <<2, 0, 0, 0>>, firms |-> <<<<>>, <<>>>>]
    [] p = "TRL 5" ->
       [kw |-> {},
        trl |-> <<5, 0, 0, 0>>, firms |-> <<<<>>, <<>>>>]
    [] p = "TRL 9" ->
       [kw |-> {},
        trl |-> <<9, 0, 0, 0>>, firms |-> <<<<>>, <<>>>>]
    [] p = "TRL 12" ->
       [kw |-> {},
        trl |-> <<12, 0, 0, 0>>, firms |-> <<<<>>, <<>>>>]
    [] p = "demonstration pilot" ->
       [kw |-> {"demonstration", "pilot"},
        trl |-> <<0, 0, 0, 0>>, firms |-> <<<<>>, <<>>>>]
    [] p = "under development" ->
       [kw |-> {"development", "ev"},
        trl |-> <<0, 0, 0, 0>>, firms |-> <<<<>>, <<>>>>]
    [] p = "laboratory research" ->
       [kw |-> {"laboratory", "research"},
        trl |-> <<0, 0, 0, 0>>, firms |-> <<<<>>, <<>>>>]
    [] p = "funded by DOE and NREL" ->
       [kw |-> {"doe", "nrel"},
        trl |-> <<0, 0, 0, 0>>, firms |-> <<<<>>, <<>>>>]
    [] p = "Khosla Ventures" ->
       [kw |-> {},
        trl |-> <<0, 0, 0, 0>>, firms |-> <<<<"Khosla Ventures">>, <<>>>>]
    [] p = "Breakthrough Energy Ventures" ->
       [kw |-> {"breakthrough", "breakthrough energy"},
        trl |-> <<0, 0, 0, 0>>, firms |-> <<<<"Breakthrough Energy Ventures">>, <<"Breakthrough Energy Ventures">>>>]
    [] p = "Lowercarbon Capital" ->
       [kw |-> {},
        trl |-> <<0, 0, 0, 0>>, firms |-> <<<<"Lowercarbon Capital">>, <<>>>>]
    [] p = "a breakthrough innovative result" ->
       [kw |-> {"breakthrough", "innovative"},
        trl |-> <<0, 0, 0, 0>>, firms |-> <<<<>>, <<>>>>]
    [] p = "advanced efficient clean manufacturing at scale" ->
       [kw |-> {"advanced", "clean", "efficient", "manufacturing", "scale"},
        trl |-> <<0, 0, 0, 0>>, firms |-> <<<<>>, <<>>>>]
    [] p = "delay and concern over a problem" ->
       [kw |-> {"concern", "delay", "problem"},
        trl |-> <<0, 0, 0, 0>>, firms |-> <<<<>>, <<>>>>]
    [] p = "direct air capture ccus carbon capture" ->
       [kw |-> {"ai", "carbon capture", "ccus", "direct air capture"},
        trl |-> <<0, 0, 0, 0>>, firms |-> <<<<>>, <<>>>>]
    [] p = "power grid upgrade" ->
       [kw |-> {"grid"},
        trl |-> <<0, 0, 0, 0>>, firms |-> <<<<>>, <<>>>>]
    [] p = "small modular reactor" ->
       [kw |-> {"reactor"},
        trl |-> <<0, 0, 0, 0>>, firms |-> <<<<>>, <<>>>>]
    [] p = "Acme raised a seed round" ->
       [kw |-> {"ai"},
        trl |-> <<0, 0, 0, 0>>, firms |-> <<<<>>, <<>>>>]
    [] p = "green marketing automation" ->
       [kw |-> {"green"},
        trl |-> <<0, 0, 0, 0>>, firms |-> <<<<>>, <<>>>>]

\* keyword in content.lower()
KeywordIn(k, content) == \E i \in DOMAIN content : k \in Scan(content[i]).kw

SectorOrder ==
  <<"energy_storage", "solar_energy", "carbon_capture", "hydrogen", "wind_energy",
    "quantum", "fusion", "geothermal", "biofuel", "nuclear">>

sector_keywords ==
  [s \in Range(SectorOrder) |->
     CASE s = "energy_storage" -> {"battery", "storage", "grid", "lithium", "energy storage"}
       [] s = "solar_energy"   -> {"solar", "photovoltaic", "pv", "solar panel"}
       [] s = "carbon_capture" -> {"carbon capture", "carbon removal", "ccus", "co2 capture"}
       [] s = "hydrogen"       -> {"hydrogen", "electrolysis", "fuel cell", "h2"}
       [] s = "wind_energy"    -> {"wind", "wind energy", "wind turbine"}
       [] s = "quantum"        -> {"quantum", "quantum computing", "qubit"}
       [] s = "fusion"         -> {"fusion", "nuclear fusion", "plasma"}
       [] s = "geothermal"     -> {"geothermal", "ground source"}
       [] s = "biofuel"        -> {"biofuel", "biomass", "biogas"}
       [] s = "nuclear"        -> {"nuclear", "reactor", "uranium"}]

_extract_tech_sectors(content) ==
  LET detected == SelectSeq(SectorOrder,
                    LAMBDA s : \E k \in sector_keywords[s] : KeywordIn(k, content))
  IN  IF detected # <<>> THEN detected ELSE <<"general_cleantech">>

\* re.search(trl_patterns[i], content): the first match in the text, 0 if none
FirstHit(values) ==
  IF \A j \in DOMAIN values : values[j] = 0 THEN 0
  ELSE values[CHOOSE j \in DOMAIN values :
                values[j] # 0 /\ \A h \in 1..(j - 1) : values[h] = 0]

TrlSearch(content, i) == FirstHit([j \in DOMAIN content |-> Scan(content[j]).trl[i]])

\* if 1 <= trl <= 9: return trl; otherwise the next pattern is tried
TrlAccept(trl, otherwise) == IF 1 <= trl /\ trl <= 9 THEN trl ELSE otherwise

RECURSIVE TrlFrom(_, _)
TrlFrom(content, i) ==
  IF i > 4 THEN 0 ELSE TrlAccept(TrlSearch(content, i), TrlFrom(content, i + 1))

\* None is 0
_extract_trl(content) == TrlFrom(content, 1)

_classify_research_stage(content) ==
  IF \E w \in {"demonstration", "pilot", "prototype"} : KeywordIn(w, content)
    THEN "demonstration"
  ELSE IF \E w \in {"development", "testing", "validation"} : KeywordIn(w, content)
    THEN "development"
  ELSE IF \E w \in {"research", "laboratory", "experimental"} : KeywordIn(w, content)
    THEN "research"
  ELSE "unknown"

agency_names ==
  <<"DOE", "Department of Energy", "ORNL", "Oak Ridge", "NREL",
    "National Renewable Energy", "ARPA-E", "NSF", "Lawrence Berkeley", "Sandia", "Argonne">>

\* agency.lower()
AgencyLower(agency) ==
  CASE agency = "DOE" -> "doe" [] agency = "Department of Energy" -> "department of energy"
    [] agency = "ORNL" -> "ornl" [] agency = "Oak Ridge" -> "oak ridge"
    [] agency = "NREL" -> "nrel"
    [] agency = "National Renewable Energy" -> "national renewable energy"
    [] agency = "ARPA-E" -> "arpa-e" [] agency = "NSF" -> "nsf"
    [] agency = "Lawrence Berkeley" -> "lawrence berkeley"
    [] agency = "Sandia" -> "sandia" [] agency = "Argonne" -> "argonne"

_extract_agencies(content) ==
  SelectSeq(agency_names, LAMBDA agency : KeywordIn(AgencyLower(agency), content))

_extract_keywords(content) ==
  SelectSeq(<<"innovation", "breakthrough", "novel", "advanced", "cutting-edge",
              "efficient", "sustainable", "renewable", "clean", "green",
              "commercialization", "deployment", "scale", "manufacturing">>,
            LAMBDA k : KeywordIn(k, content))

\* variant of trl_commercialization_weeks with the weeks of TRL 5 and TRL 8 exchanged
trl_commercialization_weeks_exchanged ==
  <<520, 416, 312, 260, 52, 156, 104, 208, 26>>

trl_commercialization_weeks ==
  [t \in 1..9 |-> CASE t = 1 -> 520 [] t = 2 -> 416 [] t = 3 -> 312 [] t = 4 -> 260
                    [] t = 5 -> 208 [] t = 6 -> 156 [] t = 7 -> 104 [] t = 8 -> 52
                    [] t = 9 -> 26]

sector_patterns ==
  [s \in {"energy_storage", "solar_energy", "carbon_capture", "hydrogen", "battery",
          "quantum", "fusion"} |->
     CASE s = "energy_storage" -> 156 [] s = "solar_energy" -> 104
       [] s = "carbon_capture" -> 208 [] s = "hydrogen" -> 130 [] s = "battery" -> 104
       [] s = "quantum" -> 312 [] s = "fusion" -> 520]

RECURSIVE SumInt(_)
SumInt(s) == IF s = <<>> THEN 0 ELSE Head(s) + SumInt(Tail(s))

\* int(np.mean(xs)) for a non-empty list of non-negative integers
IntMean(xs) == SumInt(xs) \div Len(xs)

_estimate_commercialization_timeline(content, sectors, trl) ==
  LET known == SelectSeq(sectors, LAMBDA s : s \in DOMAIN sector_patterns)
      sector_weeks == [k \in DOMAIN known |-> sector_patterns[known[k]]]
      base_weeks == IF trl # 0 THEN trl_commercialization_weeks[trl]
                    ELSE IF sector_weeks # <<>> THEN IntMean(sector_weeks) ELSE 156
      stage == _classify_research_stage(content)
      adjusted == IF stage = "demonstration" THEN Trunc(RMul(RInt(base_weeks), <<6, 10>>))
                  ELSE IF stage = "development" THEN Trunc(RMul(RInt(base_weeks), <<8, 10>>))
                  ELSE base_weeks
  IN  MaxInt(12, adjusted)

_calculate_pattern_confidence(content, trl) ==
  LET c0 == <<1, 2>>
      c1 == IF trl # 0 THEN RAdd(c0, <<3, 10>>) ELSE c0
      c2 == RAdd(c1, RMin(<<2, 10>>, Rat(Len(_extract_agencies(content)), 10)))
      c3 == RAdd(c2, RMin(<<2, 10>>, Rat(2 * Len(_extract_keywords(content)), 100)))
  IN  RMin(<<1, 1>>, c3)

_assess_market_readiness(weeks) ==
  IF weeks <= 52 THEN "market_ready"
  ELSE IF weeks <= 104 THEN "near_term"
  ELSE IF weeks <= 208 THEN "medium_term"
  ELSE "long_term"

(* ------------------------------ store ---------------------------------- *)
(* A row of deals_new: company_id, source_type, raw_text_content (has_text *)
(* is FALSE for a NULL column) and funding_stage.  Rows are returned in    *)
(* insertion order.                                                        *)

\* .eq('company_id', company_id)
RowsOfCompany(rows, company_id) == SelectSeq(rows, LAMBDA r : r.company_id = company_id)

\* .eq('source_type', source_type)
RowsOfSource(rows, source_type) == SelectSeq(rows, LAMBDA r : r.source_type = source_type)

\* 'research' in current_stage.lower()
StageMentionsResearch(funding_stage) == funding_stage \in {"Research Phase", "Research"}

RECURSIVE Flatten(_)
Flatten(ss) == IF ss = <<>> THEN <<>> ELSE Head(ss) \o Flatten(Tail(ss))

\* list.sort(key=lambda x: x.<key>, reverse=True): stable, descending
SortDesc(s, key) ==
  LET pos(i) == 1 + Cardinality({j \in DOMAIN s :
                       \/ RLt(s[i][key], s[j][key])
                       \/ (s[j][key] = s[i][key] /\ j < i)})
  IN  [p \in DOMAIN s |-> s[CHOOSE i \in DOMAIN s : pos(i) = p]]

(* ------------------- DiscoveryPatternAnalyzer -------------------------- *)
\* Optional results are sequences of length 0 (None) or 1.
\* The call raises AttributeError on content.lower() when the text is NULL.
predict_commercialization_timeline_raises(rows, company_id) ==
  LET company_data == RowsOfCompany(rows, company_id)
  IN  company_data # <<>> /\ ~company_data[1].has_text

_calculate_prediction(sectors, trl, stage, content) ==
  _estimate_commercialization_timeline(content, sectors, trl)

_calculate_prediction_confidence(sectors, trl, content) ==
  _calculate_pattern_confidence(content, trl)

CommercializationPrediction(company_id, predicted_weeks, confidence, trl, research_stage) ==
  [company_id |-> company_id,
   predicted_funding_weeks |-> predicted_weeks,
   confidence_score |-> confidence,
   trl_score |-> trl,
   research_stage |-> research_stage,
   market_readiness |-> _assess_market_readiness(predicted_weeks)]

\* the prediction from the analysis factors extracted from the content
PredictionFrom(company_id, content, tech_sectors, trl, research_stage) ==
  CommercializationPrediction(
    company_id,
    _calculate_prediction(tech_sectors, trl, research_stage, content),
    _calculate_prediction_confidence(tech_sectors, trl, content),
    trl,
    research_stage)

predict_commercialization_timeline(rows, company_id) ==
  LET company_data == RowsOfCompany(rows, company_id)
      content == company_data[1].raw_text_content
  IN  IF company_data = <<>> THEN <<>>
      ELSE << PredictionFrom(company_id, content, _extract_tech_sectors(content),
                             _extract_trl(content), _classify_research_stage(content)) >>

(* ------------------- InvestmentTimingPredictor ------------------------- *)
signal_weights ==
  [t \in {"government_research", "vc_interest", "market_activity", "news_sentiment"} |->
     CASE t = "government_research" -> <<4, 10>> [] t = "vc_interest" -> <<3, 10>>
       [] t = "market_activity" -> <<2, 10>> [] t = "news_sentiment" -> <<1, 10>>]

Signal(type, strength, weeks, count, confidence, trl, firms) ==
  [signal_type |-> type, strength |-> strength, timeframe_weeks |-> weeks,
   source_count |-> count, confidence |-> confidence, trl |-> trl, vc_firms |-> firms]

_analyze_government_signal_raises(rows, company_id) ==
  LET gov_data == RowsOfSource(RowsOfCompany(rows, company_id), "government_research")
  IN  gov_data # <<>> /\ (\/ ~gov_data[1].has_text
                          \/ predict_commercialization_timeline_raises(rows, company_id))

\* the signal from the factors of the first government entry and the prediction
GovernmentSignal(agencies, trl, keywords, prediction) ==
  LET s0 == <<3, 10>>
      s1 == IF trl # 0 /\ trl >= 6 THEN RAdd(s0, <<4, 10>>)
            ELSE IF trl # 0 /\ trl >= 4 THEN RAdd(s0, <<2, 10>>)
            ELSE s0
      s2 == RAdd(s1, RMin(<<3, 10>>, Rat(Len(agencies), 10)))
      s3 == RAdd(s2, RMin(<<2, 10>>, Rat(2 * Len(keywords), 100)))
  IN  Signal("government_research", RMin(<<1, 1>>, s3),
             IF prediction # <<>> THEN prediction[1].predicted_funding_weeks ELSE 156,
             Len(agencies),
             IF prediction # <<>> THEN prediction[1].confidence_score ELSE <<1, 2>>,
             trl, {})

_analyze_government_signal(rows, company_id) ==
  LET gov_data == RowsOfSource(RowsOfCompany(rows, company_id), "government_research")
      content == gov_data[1].raw_text_content
  IN  IF gov_data = <<>> THEN <<>>
      ELSE << GovernmentSignal(_extract_agencies(content), _extract_trl(content),
                               _extract_keywords(content),
                               predict_commercialization_timeline(rows, company_id)) >>

\* re.findall over both vc_patterns, in pattern order
VcFirms(content) ==
  LET found(k) == [i \in DOMAIN content |-> Scan(content[i]).firms[k]]
  IN  Flatten(found(1)) \o Flatten(found(2))

_analyze_vc_interest_signal_raises(rows, company_id) ==
  LET vc_data == RowsOfSource(RowsOfCompany(rows, company_id), "vc_portfolio")
  IN  vc_data # <<>> /\ ~vc_data[1].has_text

_analyze_vc_interest_signal(rows, company_id) ==
  LET vc_data == RowsOfSource(RowsOfCompany(rows, company_id), "vc_portfolio")
  IN  IF vc_data = <<>> THEN <<>>
      ELSE LET content == vc_data[1].raw_text_content
               vc_firms == VcFirms(content)
               s0 == <<7, 10>>
               s1 == IF Len(vc_firms) > 1 THEN RAdd(s0, <<2, 10>>) ELSE s0
               s2 == IF KeywordIn("breakthrough energy", content)
                     THEN RAdd(s1, <<1, 10>>) ELSE s1
           IN  << Signal("vc_interest", RMin(<<1, 1>>, s2), 52, Len(vc_firms),
                         <<8, 10>>, 0, Range(vc_firms)) >>

sector_activity(sector) ==
  CASE sector = "energy_storage" -> <<9, 10>> [] sector = "solar_energy" -> <<8, 10>>
    [] sector = "hydrogen" -> <<7, 10>> [] sector = "carbon_capture" -> <<6, 10>>
    [] sector = "quantum" -> <<4, 10>> [] sector = "fusion" -> <<3, 10>>
    [] OTHER -> <<5, 10>>

RECURSIVE RMaxOf(_)
RMaxOf(s) == IF Len(s) = 1 THEN s[1] ELSE RMax(s[1], RMaxOf(Tail(s)))

_analyze_market_activity_signal_raises(rows, company_id) ==
  LET company_data == RowsOfCompany(rows, company_id)
  IN  company_data # <<>> /\ ~company_data[1].has_text

\* variant of _analyze_market_activity_signal with no signal for a company without a
\* detected sector
_analyze_market_activity_signal_untagged(rows, company_id) ==
  LET company_data == RowsOfCompany(rows, company_id)
  IN  IF company_data = <<>> THEN <<>>
      ELSE LET tech_sectors == _extract_tech_sectors(company_data[1].raw_text_content)
           IN  IF tech_sectors = <<"general_cleantech">> THEN <<>>
               ELSE << Signal("market_activity",
                              RMaxOf([k \in DOMAIN tech_sectors |-> sector_activity(tech_sectors[k])]),
                              26, Len(tech_sectors), <<6, 10>>, 0, {}) >>

_analyze_market_activity_signal(rows, company_id) ==
  LET company_data == RowsOfCompany(rows, company_id)
  IN  IF company_data = <<>> THEN <<>>
      ELSE LET tech_sectors == _extract_tech_sectors(company_data[1].raw_text_content)
           IN  IF tech_sectors = <<>> THEN <<>>
               ELSE << Signal("market_activity",
                              RMaxOf([k \in DOMAIN tech_sectors |-> sector_activity(tech_sectors[k])]),
                              26, Len(tech_sectors), <<6, 10>>, 0, {}) >>

_analyze_news_sentiment_signal_raises(rows, company_id) ==
  LET news_data == RowsOfSource(RowsOfCompany(rows, company_id), "news")
  IN  \E i \in DOMAIN news_data : ~news_data[i].has_text

_analyze_news_sentiment_signal(rows, company_id) ==
  LET news_data == RowsOfSource(RowsOfCompany(rows, company_id), "news")
      positive_words == {"breakthrough", "innovative", "revolutionary", "leading",
                         "advanced", "successful"}
      negative_words == {"challenge", "problem", "delay", "issue", "concern"}
      hits(words, content) == Cardinality({w \in words : KeywordIn(w, content)})
      total_positive == SumInt([i \in DOMAIN news_data |->
                                  hits(positive_words, news_data[i].raw_text_content)])
      total_negative == SumInt([i \in DOMAIN news_data |->
                                  hits(negative_words, news_data[i].raw_text_content)])
  IN  IF news_data = <<>> THEN <<>>
      ELSE << Signal("news_sentiment",
                     IF total_positive + total_negative = 0 THEN <<1, 2>>
                     ELSE Rat(total_positive, total_positive + total_negative),
                     4, Len(news_data), <<4, 10>>, 0, {}) >>

analyze_investment_signals_raises(rows, company_id) ==
  \/ _analyze_government_signal_raises(rows, company_id)
  \/ _analyze_vc_interest_signal_raises(rows, company_id)
  \/ _analyze_market_activity_signal_raises(rows, company_id)
  \/ _analyze_news_sentiment_signal_raises(rows, company_id)

\* variant of analyze_investment_signals that appends the news signal before the market one
analyze_investment_signals_news_first(rows, company_id) ==
  _analyze_government_signal(rows, company_id)
    \o _analyze_vc_interest_signal(rows, company_id)
    \o _analyze_news_sentiment_signal(rows, company_id)
    \o _analyze_market_activity_signal(rows, company_id)

analyze_investment_signals(rows, company_id) ==
  _analyze_government_signal(rows, company_id)
    \o _analyze_vc_interest_signal(rows, company_id)
    \o _analyze_market_activity_signal(rows, company_id)
    \o _analyze_news_sentiment_signal(rows, company_id)

\* signal_weights.get(signal_type, 0.1) * strength
SignalWeight(signal) == RMul(signal_weights[signal.signal_type], signal.strength)

\* the signal list as <<signal_type, strength, timeframe_weeks>> triples
FloatProfile(signals) ==
  [i \in DOMAIN signals |->
     <<signals[i].signal_type, Rat(signals[i].strength[1], signals[i].strength[2]),
       signals[i].timeframe_weeks>>]

\* the signal lists of the sample corpus for which weighted_timing / total_weight, an
\* integer in exact arithmetic, comes out just below that integer in double precision
FloatShortfall ==
  {<< <<"government_research", <<1, 1>>, 156>>, <<"market_activity", <<1, 2>>, 26>>,
      <<"news_sentiment", <<0, 1>>, 4>> >>,
   << <<"government_research", <<1, 1>>, 156>>, <<"market_activity", <<1, 2>>, 26>>,
      <<"news_sentiment", <<1, 1>>, 4>> >>,
   << <<"government_research", <<1, 2>>, 416>>, <<"market_activity", <<2, 5>>, 26>>,
      <<"news_sentiment", <<2, 5>>, 4>> >>,
   << <<"government_research", <<3, 10>>, 130>>, <<"market_activity", <<7, 10>>, 26>> >>,
   << <<"government_research", <<3, 10>>, 156>>, <<"market_activity", <<9, 10>>, 26>> >>,
   << <<"government_research", <<7, 10>>, 26>>, <<"market_activity", <<1, 2>>, 26>> >>,
   << <<"government_research", <<7, 10>>, 26>>, <<"market_activity", <<1, 2>>, 26>>,
      <<"news_sentiment", <<0, 1>>, 4>> >>}

_calculate_optimal_timing(signals, funding_stage) ==
  LET weighted_timing == RSum([k \in DOMAIN signals |->
                                 LET s == signals[k] IN RMul(RInt(s.timeframe_weeks), SignalWeight(s))])
      total_weight == RSum([k \in DOMAIN signals |-> SignalWeight(signals[k])])
  IN  IF total_weight = <<0, 1>> THEN 52
      ELSE LET optimal_weeks == IF FloatProfile(signals) \in FloatShortfall
                                THEN Trunc(RDiv(weighted_timing, total_weight)) - 1
                                ELSE Trunc(RDiv(weighted_timing, total_weight))
               floored == IF StageMentionsResearch(funding_stage)
                          THEN MaxInt(optimal_weeks, 26) ELSE optimal_weeks
           IN  MaxInt(4, floored)

_calculate_timing_confidence(signals) ==
  LET weighted_confidence == RSum([k \in DOMAIN signals |->
                                     LET s == signals[k] IN RMul(s.confidence, s.strength)])
      total_weight == RSum([k \in DOMAIN signals |-> LET s == signals[k] IN s.strength])
  IN  IF signals = <<>> THEN <<0, 1>>
      ELSE IF RLt(<<0, 1>>, total_weight) THEN RDiv(weighted_confidence, total_weight)
      ELSE <<0, 1>>

_assess_risk_factors(signals) ==
  LET of(type) == SelectSeq(signals, LAMBDA s : s.signal_type = type)
      gov == of("government_research")
      market == of("market_activity")
      vc == of("vc_interest")
      news == of("news_sentiment")
  IN  (IF gov # <<>> /\ gov[1].trl # 0 /\ gov[1].trl < 4
         THEN <<"Early-stage technology (TRL < 4)">> ELSE <<>>)
      \o (IF market # <<>> /\ RLt(market[1].strength, <<5, 10>>)
         THEN <<"Low market activity in sector">> ELSE <<>>)
      \o (IF vc # <<>> /\ Cardinality(vc[1].vc_firms) > 2
         THEN <<"High VC interest may increase competition">> ELSE <<>>)
      \o (IF news # <<>> /\ RLt(news[1].strength, <<4, 10>>)
         THEN <<"Negative news sentiment">> ELSE <<>>)

\* variant of _calculate_opportunity_score that leaves the score uncapped
_calculate_opportunity_score_uncapped(signals, timing_weeks) ==
  LET signal_score == RSum([k \in DOMAIN signals |-> SignalWeight(signals[k])])
      timing_bonus == RMax(<<0, 1>>, RMul(Rat(104 - timing_weeks, 104), <<3, 10>>))
      source_types == {signals[i].signal_type : i \in DOMAIN signals}
      multi_source_bonus == Rat(Cardinality(source_types) - 1, 10)
  IN  IF signals = <<>> THEN <<0, 1>>
      ELSE RAdd(RAdd(signal_score, timing_bonus), multi_source_bonus)

_calculate_opportunity_score(signals, timing_weeks) ==
  LET signal_score == RSum([k \in DOMAIN signals |-> SignalWeight(signals[k])])
      timing_bonus == RMax(<<0, 1>>, RMul(Rat(104 - timing_weeks, 104), <<3, 10>>))
      source_types == {signals[i].signal_type : i \in DOMAIN signals}
      multi_source_bonus == Rat(Cardinality(source_types) - 1, 10)
  IN  IF signals = <<>> THEN <<0, 1>>
      ELSE RMin(<<1, 1>>, RAdd(RAdd(signal_score, timing_bonus), multi_source_bonus))

\* variant of _generate_investment_recommendation whose first rule excludes week 12
_generate_investment_recommendation_before_12(timing_weeks, opportunity_score, risk_factors) ==
  IF RLt(<<8, 10>>, opportunity_score)
    THEN IF timing_weeks < 12 THEN "STRONG BUY - High opportunity, immediate timing"
         ELSE IF timing_weeks <= 26 THEN "BUY - High opportunity, near-term timing"
         ELSE "WATCH - High opportunity, longer-term timing"
  ELSE IF RLt(<<6, 10>>, opportunity_score)
    THEN IF timing_weeks <= 26 THEN "CONSIDER - Moderate opportunity, good timing"
         ELSE "WATCH - Moderate opportunity, monitor progress"
  ELSE IF RLt(<<4, 10>>, opportunity_score)
    THEN "MONITOR - Limited opportunity, track developments"
  ELSE "PASS - Low opportunity score"

_generate_investment_recommendation(timing_weeks, opportunity_score, risk_factors) ==
  IF RLt(<<8, 10>>, opportunity_score)
    THEN IF timing_weeks <= 12 THEN "STRONG BUY - High opportunity, immediate timing"
         ELSE IF timing_weeks <= 26 THEN "BUY - High opportunity, near-term timing"
         ELSE "WATCH - High opportunity, longer-term timing"
  ELSE IF RLt(<<6, 10>>, opportunity_score)
    THEN IF timing_weeks <= 26 THEN "CONSIDER - Moderate opportunity, good timing"
         ELSE "WATCH - Moderate opportunity, monitor progress"
  ELSE IF RLt(<<4, 10>>, opportunity_score)
    THEN "MONITOR - Limited opportunity, track developments"
  ELSE "PASS - Low opportunity score"

predict_optimal_timing_raises(rows, company_id) ==
  RowsOfCompany(rows, company_id) # <<>> /\ analyze_investment_signals_raises(rows, company_id)

InvestmentTiming(company_id, optimal_weeks, confidence, signals, risk_factors, score) ==
  [company_id |-> company_id,
   optimal_timing_weeks |-> optimal_weeks,
   timing_confidence |-> confidence,
   investment_signals |-> signals,
   risk_factors |-> risk_factors,
   opportunity_score |-> score,
   recommendation |-> _generate_investment_recommendation(optimal_weeks, score, risk_factors)]

\* the timing at the fused number of weeks
TimingAt(company_id, signals, optimal_weeks) ==
  InvestmentTiming(company_id, optimal_weeks, _calculate_timing_confidence(signals), signals,
                   _assess_risk_factors(signals),
                   _calculate_opportunity_score(signals, optimal_weeks))

\* if not signals: return None
TimingFrom(company_id, current_stage, signals) ==
  IF signals = <<>> THEN <<>>
  ELSE << TimingAt(company_id, signals, _calculate_optimal_timing(signals, current_stage)) >>

predict_optimal_timing(rows, company_id) ==
  LET company_data == RowsOfCompany(rows, company_id)
  IN  IF company_data = <<>> THEN <<>>
      ELSE TimingFrom(company_id, company_data[1].funding_stage,
                      analyze_investment_signals(rows, company_id))

batch_analyze_investment_opportunities_raises(rows) ==
  \E i \in DOMAIN Take(rows, 10) : predict_optimal_timing_raises(rows, rows[i].company_id)

batch_analyze_investment_opportunities(rows) ==
  LET companies == Take(rows, 10)
      timings == Flatten([i \in DOMAIN companies |->
                            predict_optimal_timing(rows, companies[i].company_id)])
      opportunities == SelectSeq(timings, LAMBDA t : RLt(<<3, 10>>, t.opportunity_score))
  IN  SortDesc(opportunities, "opportunity_score")

(* ----------------------- MarketTrendForecaster ------------------------- *)
ClimateSectorOrder ==
  <<"energy_storage", "solar_energy", "hydrogen", "carbon_capture", "wind_energy",
    "geothermal", "electric_vehicles", "smart_grid", "biotech", "quantum",
    "ai_climate", "fusion">>

climate_sectors ==
  [s \in Range(ClimateSectorOrder) |->
     CASE s = "energy_storage"    -> <<"battery", "storage", "grid", "lithium">>
       [] s = "solar_energy"      -> <<"solar", "photovoltaic", "pv", "renewable">>
       [] s = "hydrogen"          -> <<"hydrogen", "fuel cell", "electrolysis">>
       [] s = "carbon_capture"    -> <<"carbon capture", "ccus", "direct air capture", "dac">>
       [] s = "wind_energy"       -> <<"wind", "turbine", "offshore wind">>
       [] s = "geothermal"        -> <<"geothermal", "heat pump", "thermal">>
       [] s = "electric_vehicles" -> <<"electric vehicle", "ev", "battery vehicle">>
       [] s = "smart_grid"        -> <<"smart grid", "grid management", "demand response">>
       [] s = "biotech"           -> <<"bioengineering", "synthetic biology", "biofuels">>
       [] s = "quantum"           -> <<"quantum", "quantum computing", "quantum sensing">>
       [] s = "ai_climate"        -> <<"ai", "machine learning", "climate modeling">>
       [] s = "fusion"            -> <<"fusion", "nuclear fusion", "tokamak">>]

\* .ilike('raw_text_content', '%keyword%').limit(20): a NULL column never matches
RowsLike(rows, keyword) ==
  Take(SelectSeq(rows, LAMBDA r : r.has_text /\ KeywordIn(keyword, r.raw_text_content)), 20)

\* variant of _calculate_sector_momentum that returns the sum of its terms uncapped
_calculate_sector_momentum_uncapped(sector_data, keywords) ==
  LET matches(r) == Cardinality({i \in DOMAIN keywords :
                                   KeywordIn(keywords[i], r.raw_text_content)})
      total_matches == SumInt([k \in DOMAIN sector_data |-> matches(sector_data[k])])
      momentum == RMin(<<7, 10>>, Rat(total_matches, Len(sector_data) * Len(keywords)))
      source_types == {sector_data[i].source_type : i \in DOMAIN sector_data}
      source_bonus == Rat(Cardinality(source_types), 10)
      gov_count == Len(RowsOfSource(sector_data, "government_research"))
      gov_bonus == RMin(<<2, 10>>, Rat(gov_count, Len(sector_data)))
  IN  RAdd(RAdd(momentum, source_bonus), gov_bonus)

_calculate_sector_momentum(sector_data, keywords) ==
  LET matches(r) == Cardinality({i \in DOMAIN keywords :
                                   KeywordIn(keywords[i], r.raw_text_content)})
      total_matches == SumInt([k \in DOMAIN sector_data |-> matches(sector_data[k])])
      momentum == RMin(<<7, 10>>, Rat(total_matches, Len(sector_data) * Len(keywords)))
      source_types == {sector_data[i].source_type : i \in DOMAIN sector_data}
      source_bonus == Rat(Cardinality(source_types), 10)
      gov_count == Len(RowsOfSource(sector_data, "government_research"))
      gov_bonus == RMin(<<2, 10>>, Rat(gov_count, Len(sector_data)))
  IN  RMin(<<1, 1>>, RAdd(RAdd(momentum, source_bonus), gov_bonus))

_determine_trend_direction(momentum_score) ==
  IF RLt(<<7, 10>>, momentum_score) THEN "rising"
  ELSE IF RLt(<<4, 10>>, momentum_score) THEN "stable"
  ELSE "declining"

_analyze_single_sector_trend(rows, sector) ==
  LET keywords == climate_sectors[sector]
      sector_data == Flatten([i \in DOMAIN Take(keywords, 3) |-> RowsLike(rows, keywords[i])])
      momentum_score == _calculate_sector_momentum(sector_data, keywords)
  IN  IF sector_data = <<>> THEN <<>>
      ELSE << [sector |-> sector,
               trend_direction |-> _determine_trend_direction(momentum_score),
               momentum_score |-> momentum_score,
               confidence |-> RMin(<<9, 10>>, RAdd(Rat(Len(sector_data), 20), <<3, 10>>)),
               data_points |-> Len(sector_data)] >>

analyze_sector_trends(rows) ==
  SortDesc(Flatten([i \in DOMAIN ClimateSectorOrder |->
                      _analyze_single_sector_trend(rows, ClimateSectorOrder[i])]),
           "momentum_score")

_analyze_investment_flow(rows, keywords) ==
  LET vc_data == Take(RowsOfSource(rows, "vc_portfolio"), 50)
      sector_vc_count == Len(SelectSeq(vc_data,
                               LAMBDA r : \E i \in DOMAIN keywords :
                                             KeywordIn(keywords[i], r.raw_text_content)))
      total_vc == Len(vc_data)
      sector_percentage == IF total_vc > 0 THEN Rat(sector_vc_count, total_vc) ELSE <<0, 1>>
  IN  [trend |-> IF RLt(<<15, 100>>, sector_percentage) THEN "increasing"
                 ELSE IF RLt(<<5, 100>>, sector_percentage) THEN "stable"
                 ELSE "decreasing",
       sector_percentage |-> sector_percentage,
       vc_mentions |-> sector_vc_count]

_analyze_government_support(rows, keywords) ==
  LET gov_data == Take(RowsOfSource(rows, "government_research"), 50)
      sector_gov_count == Len(SelectSeq(gov_data,
                                LAMBDA r : \E i \in DOMAIN keywords :
                                             KeywordIn(keywords[i], r.raw_text_content)))
  IN  [support_level |-> IF sector_gov_count > 3 THEN "high"
                         ELSE IF sector_gov_count > 1 THEN "medium" ELSE "low",
       project_count |-> sector_gov_count]

_predict_sector_growth(trend, investment_flow, gov_support) ==
  LET base_growth == RMul(trend.momentum_score, RInt(50))
      flow_multiplier == CASE investment_flow.trend = "increasing" -> <<15, 10>>
                           [] investment_flow.trend = "stable" -> <<1, 1>>
                           [] investment_flow.trend = "decreasing" -> <<7, 10>>
                           [] OTHER -> <<1, 1>>
      gov_multiplier == CASE gov_support.support_level = "high" -> <<13, 10>>
                          [] gov_support.support_level = "medium" -> <<11, 10>>
                          [] gov_support.support_level = "low" -> <<9, 10>>
                          [] OTHER -> <<1, 1>>
      final_growth == RMul(RMul(base_growth, flow_multiplier), gov_multiplier)
  IN  RMin(RInt(100), RMax(RInt(5), final_growth))

_determine_adoption_stage(trend, investment_flow) ==
  IF RLt(<<8, 10>>, trend.momentum_score) /\ investment_flow.trend = "increasing" THEN "growth"
  ELSE IF RLt(<<6, 10>>, trend.momentum_score) THEN "early"
  ELSE IF RLt(<<3, 10>>, trend.momentum_score) THEN "maturity"
  ELSE "decline"

\* variant of _assess_sector_risk that rates every confident trend 'low'
_assess_sector_risk_confident(trend, adoption_stage) ==
  IF adoption_stage = "early" /\ RLt(trend.confidence, <<6, 10>>) THEN "high"
  ELSE IF adoption_stage = "decline" \/ RLt(trend.momentum_score, <<3, 10>>) THEN "high"
  ELSE IF RLt(<<7, 10>>, trend.confidence) THEN "low"
  ELSE "medium"

_assess_sector_risk(trend, adoption_stage) ==
  IF adoption_stage = "early" /\ RLt(trend.confidence, <<6, 10>>) THEN "high"
  ELSE IF adoption_stage = "decline" \/ RLt(trend.momentum_score, <<3, 10>>) THEN "high"
  ELSE IF adoption_stage = "growth" /\ RLt(<<7, 10>>, trend.confidence) THEN "low"
  ELSE "medium"

_generate_sector_recommendation(growth_prediction, risk_level, adoption_stage) ==
  IF RLt(RInt(40), growth_prediction) /\ risk_level = "low"
    THEN "Strong Buy - High growth, low risk"
  ELSE IF RLt(RInt(30), growth_prediction) /\ risk_level \in {"low", "medium"}
    THEN "Buy - Good growth potential"
  ELSE IF RLt(RInt(20), growth_prediction) THEN "Hold - Moderate growth expected"
  ELSE IF risk_level = "high" THEN "Caution - High risk sector"
  ELSE "Monitor - Limited growth potential"

\* the forecast of a sector from its current trend, or None without one
SectorForecast(sector, current_trend, investment_flow, gov_support) ==
  IF current_trend = <<>> THEN <<>>
  ELSE LET trend == current_trend[1]
           growth_prediction == _predict_sector_growth(trend, investment_flow, gov_support)
           adoption_stage == _determine_adoption_stage(trend, investment_flow)
           risk_level == _assess_sector_risk(trend, adoption_stage)
       IN  << [sector |-> sector,
               growth_prediction |-> growth_prediction,
               investment_flow_trend |-> investment_flow.trend,
               adoption_stage |-> adoption_stage,
               risk_level |-> risk_level,
               recommended_action |->
                 _generate_sector_recommendation(growth_prediction, risk_level, adoption_stage),
               forecast_confidence |-> trend.confidence] >>

\* data.get('raw_text_content', '').lower() of a NULL column raises AttributeError
forecast_sector_growth_raises(rows, sector) ==
  /\ sector \in DOMAIN climate_sectors
  /\ _analyze_single_sector_trend(rows, sector) # <<>>
  /\ \E i \in DOMAIN rows :
        /\ rows[i].source_type \in {"vc_portfolio", "government_research"}
        /\ ~rows[i].has_text

forecast_sector_growth(rows, sector) ==
  IF sector \notin DOMAIN climate_sectors THEN <<>>
  ELSE SectorForecast(sector, _analyze_single_sector_trend(rows, sector),
                      _analyze_investment_flow(rows, climate_sectors[sector]),
                      _analyze_government_support(rows, climate_sectors[sector]))

\* keyword_counts of _extract_trending_keywords counts capitalised words ending in tech,
\* energy, bio or quantum; no phrase of PhraseSet holds one, so no keyword reaches the
\* frequency of 3 and the list is empty
identify_emerging_trends(rows) == <<>>

_calculate_overall_market_momentum(sector_trends) ==
  LET rising_count == Len(SelectSeq(sector_trends, LAMBDA t : t.trend_direction = "rising"))
  IN  IF sector_trends = <<>>
      THEN [score |-> <<1, 2>>, direction |-> "stable", confidence |-> <<3, 10>>]
      ELSE [score |-> RDiv(RSum([k \in DOMAIN sector_trends |-> sector_trends[k].momentum_score]),
                           RInt(Len(sector_trends))),
            direction |-> IF 2 * rising_count > Len(sector_trends) THEN "rising" ELSE "stable",
            confidence |-> RDiv(RSum([k \in DOMAIN sector_trends |-> sector_trends[k].confidence]),
                                RInt(Len(sector_trends))),
            sectors_analyzed |-> Len(sector_trends)]

\* recommendations.sort(key=(priority_order, growth_potential), reverse=True), a stable sort
_generate_investment_recommendations(forecasts) ==
  LET priority(action) ==
        IF action = "Strong Buy - High growth, low risk" THEN "High"
        ELSE IF action = "Buy - Good growth potential" THEN "Medium"
        ELSE "Low"
      recommendations ==
        [k \in DOMAIN forecasts |->
           [sector |-> forecasts[k].sector,
            action |-> forecasts[k].recommended_action,
            priority |-> priority(forecasts[k].recommended_action),
            growth_potential |-> forecasts[k].growth_prediction,
            risk_level |-> forecasts[k].risk_level]]
      priority_order(r) == CASE r.priority = "High" -> 3 [] r.priority = "Medium" -> 2
                             [] OTHER -> 1
      above(a, b) == \/ priority_order(a) > priority_order(b)
                     \/ /\ priority_order(a) = priority_order(b)
                        /\ RLt(b.growth_potential, a.growth_potential)
      pos(i) == 1 + Cardinality({j \in DOMAIN recommendations :
                       \/ above(recommendations[j], recommendations[i])
                       \/ (~above(recommendations[i], recommendations[j]) /\ j < i)})
  IN  [p \in DOMAIN recommendations |->
         recommendations[CHOOSE i \in DOMAIN recommendations : pos(i) = p]]

\* the outlook over the forecasts of the first 8 sector trends
MarketOutlook(rows, timeframe_months, sector_trends) ==
  LET top8 == Take(sector_trends, 8)
      sector_forecasts == Flatten([i \in DOMAIN top8 |->
                                     forecast_sector_growth(rows, top8[i].sector)])
  IN  [timeframe_months |-> timeframe_months,
       overall_momentum |-> _calculate_overall_market_momentum(sector_trends),
       sector_trends |-> [k \in DOMAIN sector_trends |->
                            [sector |-> sector_trends[k].sector,
                             momentum_score |-> sector_trends[k].momentum_score,
                             trend_direction |-> sector_trends[k].trend_direction,
                             confidence |-> sector_trends[k].confidence]],
       sector_forecasts |-> [k \in DOMAIN sector_forecasts |->
                               [sector |-> sector_forecasts[k].sector,
                                growth_prediction |-> sector_forecasts[k].growth_prediction,
                                adoption_stage |-> sector_forecasts[k].adoption_stage,
                                recommended_action |-> sector_forecasts[k].recommended_action,
                                risk_level |-> sector_forecasts[k].risk_level]],
       emerging_trends |-> identify_emerging_trends(rows),
       investment_recommendations |-> _generate_investment_recommendations(sector_forecasts),
       outlook_confidence |->
         IF sector_trends = <<>> THEN <<1, 2>>
         ELSE RDiv(RSum([k \in DOMAIN sector_trends |-> sector_trends[k].confidence]),
                   RInt(Len(sector_trends)))]

\* .lower() in the forecast and re.findall in _extract_trending_keywords raise on a NULL
\* text column
generate_market_outlook_raises(rows) == \E i \in DOMAIN rows : ~rows[i].has_text

generate_market_outlook(rows, timeframe_months) ==
  MarketOutlook(rows, timeframe_months, analyze_sector_trends(rows))

(* --------------------- InvestmentStrategyOptimizer --------------------- *)
strategy_profiles ==
  [p \in {"conservative", "moderate", "aggressive"} |->
     CASE p = "conservative" ->
            [risk_tolerance |-> <<3, 10>>, return_target |-> 15,
             sector_concentration_limit |-> <<4, 10>>, timeline_preference |-> "medium_term"]
       [] p = "moderate" ->
            [risk_tolerance |-> <<5, 10>>, return_target |-> 25,
             sector_concentration_limit |-> <<5, 10>>, timeline_preference |-> "mixed"]
       [] p = "aggressive" ->
            [risk_tolerance |-> <<8, 10>>, return_target |-> 40,
             sector_concentration_limit |-> <<7, 10>>, timeline_preference |-> "long_term"]]

\* variant of _filter_opportunities_by_risk that keeps every opportunity
_filter_opportunities_by_risk_unfiltered(opportunities, profile) == opportunities

_filter_opportunities_by_risk(opportunities, profile) ==
  SelectSeq(opportunities,
            LAMBDA opp : RLe(Rat(Len(opp.risk_factors), 5), profile.risk_tolerance))

\* the dictionaries of the optimizer are sequences in insertion order
\* allocation[sector] = weight, then (allocation[sector] / total_weight) * 100
NormalizedWeights(weights, total_weight) ==
  [i \in DOMAIN weights |->
     IF RLt(<<0, 1>>, total_weight) THEN RMul(RDiv(weights[i], total_weight), RInt(100))
     ELSE weights[i]]

\* excess += allocation[sector] - max_allocation over the sectors above the limit
Excess(allocation, max_allocation) ==
  RSum([i \in DOMAIN allocation |->
          IF RLt(max_allocation, allocation[i]) THEN RSub(allocation[i], max_allocation)
          ELSE <<0, 1>>])

\* allocation[sector] = max_allocation for the sectors above the limit
Capped(allocation, max_allocation) ==
  [i \in DOMAIN allocation |-> RMin(allocation[i], max_allocation)]

\* variant of Redistributed that adds the whole excess to every sector under the limit
Redistributed_whole_excess(capped, max_allocation, excess) ==
  [i \in DOMAIN capped |->
     IF RLt(<<0, 1>>, excess) /\ RLt(capped[i], max_allocation)
     THEN RAdd(capped[i], excess)
     ELSE capped[i]]

\* the excess goes in equal shares to the sectors under the limit, in one pass
Redistributed(capped, max_allocation, excess) ==
  LET under_limit_sectors == {i \in DOMAIN capped : RLt(capped[i], max_allocation)}
  IN  [i \in DOMAIN capped |->
         IF RLt(<<0, 1>>, excess) /\ i \in under_limit_sectors
         THEN RAdd(capped[i], RDiv(excess, RInt(Cardinality(under_limit_sectors))))
         ELSE capped[i]]

CapAndRedistribute(allocation, max_allocation) ==
  Redistributed(Capped(allocation, max_allocation), max_allocation,
                Excess(allocation, max_allocation))

SectorWeights(sector_trends, profile) ==
  [i \in DOMAIN sector_trends |->
     RMul(sector_trends[i].momentum_score, RAdd(<<1, 1>>, profile.risk_tolerance))]

SectorPercentages(sector_trends, weights, max_allocation) ==
  LET percentage == CapAndRedistribute(NormalizedWeights(weights, RSum(weights)),
                                       max_allocation)
  IN  [i \in DOMAIN sector_trends |->
         [sector |-> sector_trends[i].sector, percentage |-> percentage[i]]]

_calculate_sector_allocation(sector_trends, profile) ==
  SectorPercentages(sector_trends, SectorWeights(sector_trends, profile),
                    RMul(profile.sector_concentration_limit, RInt(100)))

\* variant of FirstSector that files a company without a detected sector under
\* energy_storage
FirstSector_or_storage(rows, company_id) ==
  LET sectors == _extract_tech_sectors(RowsOfCompany(rows, company_id)[1].raw_text_content)
  IN  IF sectors[1] = "general_cleantech" THEN "energy_storage" ELSE sectors[1]

\* sectors[0] of the first row of the opportunity's company
FirstSector(rows, company_id) ==
  _extract_tech_sectors(RowsOfCompany(rows, company_id)[1].raw_text_content)[1]

\* variant of _optimize_sector_allocation that allocates the sector weight itself
_optimize_sector_allocation_by_weight(rows, opportunities, sector_trends, capital_amount, profile) ==
  LET entry(sector_trend) ==
        LET sector == sector_trend.sector
            sector_opps == SelectSeq(opportunities,
                             LAMBDA opp : FirstSector(rows, opp.company_id) = sector)
            sector_weight == RMul(sector_trend.momentum_score,
                                  RAdd(<<1, 1>>, profile.risk_tolerance))
            sector_allocation == sector_weight
            sector_capital == RMul(RInt(capital_amount), sector_allocation)
            top_companies == Take(SortDesc(sector_opps, "opportunity_score"), 3)
        IN  IF sector_opps = <<>> THEN <<>>
            ELSE << [sector |-> sector,
                     total_allocation |-> sector_capital,
                     allocation_percentage |-> RMul(sector_allocation, RInt(100)),
                     companies |->
                       [i \in DOMAIN top_companies |->
                          [name |-> top_companies[i].company_id,
                           allocation |-> RDiv(sector_capital, RInt(Len(top_companies))),
                           opportunity_score |-> top_companies[i].opportunity_score,
                           timing_weeks |-> top_companies[i].optimal_timing_weeks,
                           rationale |-> top_companies[i].recommendation]],
                     sector_momentum |-> sector_trend.momentum_score] >>
      top8 == Take(sector_trends, 8)
  IN  Flatten([i \in DOMAIN top8 |-> entry(top8[i])])

_optimize_sector_allocation(rows, opportunities, sector_trends, capital_amount, profile) ==
  LET entry(sector_trend) ==
        LET sector == sector_trend.sector
            sector_opps == SelectSeq(opportunities,
                             LAMBDA opp : FirstSector(rows, opp.company_id) = sector)
            sector_weight == RMul(sector_trend.momentum_score,
                                  RAdd(<<1, 1>>, profile.risk_tolerance))
            sector_allocation == RMin(profile.sector_concentration_limit,
                                      RMul(sector_weight, <<3, 10>>))
            sector_capital == RMul(RInt(capital_amount), sector_allocation)
            top_companies == Take(SortDesc(sector_opps, "opportunity_score"), 3)
        IN  IF sector_opps = <<>> THEN <<>>
            ELSE << [sector |-> sector,
                     total_allocation |-> sector_capital,
                     allocation_percentage |-> RMul(sector_allocation, RInt(100)),
                     companies |->
                       [i \in DOMAIN top_companies |->
                          [name |-> top_companies[i].company_id,
                           allocation |-> RDiv(sector_capital, RInt(Len(top_companies))),
                           opportunity_score |-> top_companies[i].opportunity_score,
                           timing_weeks |-> top_companies[i].optimal_timing_weeks,
                           rationale |-> top_companies[i].recommendation]],
                     sector_momentum |-> sector_trend.momentum_score] >>
      top8 == Take(sector_trends, 8)
  IN  Flatten([i \in DOMAIN top8 |-> entry(top8[i])])

_calculate_portfolio_return(allocation, sector_trends) ==
  LET total_allocation == RSum([k \in DOMAIN allocation |->
                                  LET d == allocation[k] IN d.allocation_percentage])
      momentum(sector) ==
        (CHOOSE i \in DOMAIN sector_trends : sector_trends[i].sector = sector)
      term(d) ==
        IF \E i \in DOMAIN sector_trends : sector_trends[i].sector = d.sector
        THEN RMul(RMul(sector_trends[momentum(d.sector)].momentum_score, RInt(30)),
                  IF RLt(<<0, 1>>, total_allocation)
                  THEN RDiv(d.allocation_percentage, total_allocation) ELSE <<0, 1>>)
        ELSE <<0, 1>>
  IN  RSum([k \in DOMAIN allocation |-> term(allocation[k])])

\* variant of _calculate_portfolio_risk whose sector risk is the company risk alone
_calculate_portfolio_risk_company_only(allocation, sector_trends) ==
  LET company_risk(company) ==
        RDiv(RAdd(RMin(<<1, 1>>, Rat(company.timing_weeks, 104)),
                  RSub(<<1, 1>>, company.opportunity_score)), RInt(2))
      sector_risk(d) ==
        LET company_risks == [k \in DOMAIN d.companies |-> company_risk(d.companies[k])]
        IN  IF company_risks # <<>>
            THEN RDiv(RSum(company_risks), RInt(Len(company_risks)))
            ELSE <<1, 2>>
      total_risk == RSum([k \in DOMAIN allocation |->
                            LET d == allocation[k] IN RMul(sector_risk(d), d.allocation_percentage)])
      total_weight == RSum([k \in DOMAIN allocation |->
                              LET d == allocation[k] IN d.allocation_percentage])
  IN  IF RLt(<<0, 1>>, total_weight) THEN RDiv(total_risk, total_weight) ELSE <<1, 2>>

_calculate_portfolio_risk(allocation, sector_trends) ==
  LET company_risk(company) ==
        RDiv(RAdd(RMin(<<1, 1>>, Rat(company.timing_weeks, 104)),
                  RSub(<<1, 1>>, company.opportunity_score)), RInt(2))
      sector_risk(d) ==
        LET concentration_risk == RDiv(d.allocation_percentage, RInt(100))
            company_risks == [k \in DOMAIN d.companies |-> company_risk(d.companies[k])]
            avg_company_risk == IF company_risks # <<>>
                                THEN RDiv(RSum(company_risks), RInt(Len(company_risks)))
                                ELSE <<1, 2>>
        IN  RDiv(RAdd(concentration_risk, avg_company_risk), RInt(2))
      total_risk == RSum([k \in DOMAIN allocation |->
                            LET d == allocation[k] IN RMul(sector_risk(d), d.allocation_percentage)])
      total_weight == RSum([k \in DOMAIN allocation |->
                              LET d == allocation[k] IN d.allocation_percentage])
  IN  IF RLt(<<0, 1>>, total_weight) THEN RDiv(total_risk, total_weight) ELSE <<1, 2>>

_calculate_diversification_score(allocation) ==
  LET allocations == [k \in DOMAIN allocation |->
                        LET d == allocation[k] IN RDiv(d.allocation_percentage, RInt(100))]
      hhi == RSum([k \in DOMAIN allocations |-> LET a == allocations[k] IN RMul(a, a)])
      diversification == RMul(RSub(<<1, 1>>, hhi), Rat(Len(allocation), 10))
  IN  IF allocation = <<>> THEN <<0, 1>> ELSE RMin(<<1, 1>>, diversification)

_generate_portfolio_recommendations(allocation, sector_trends, profile) ==
  LET max_allocation == IF allocation = <<>> THEN <<0, 1>>
                        ELSE RMaxOf([k \in DOMAIN allocation |->
                                       LET d == allocation[k] IN d.allocation_percentage])
      quick_opportunities ==
        SumInt([k \in DOMAIN allocation |->
                  LET d == allocation[k] IN Len(SelectSeq(d.companies, LAMBDA c : c.timing_weeks < 26))])
      declining == SelectSeq(allocation, LAMBDA d :
                     \E i \in DOMAIN sector_trends :
                        /\ sector_trends[i].sector = d.sector
                        /\ sector_trends[i].trend_direction = "declining")
  IN  (IF RLt(RMul(profile.sector_concentration_limit, RInt(100)), max_allocation)
         THEN <<"Consider reducing concentration in top sector">> ELSE <<>>)
      \o (IF Len(allocation) < 3
         THEN <<"Consider diversifying across more sectors for risk reduction">> ELSE <<>>)
      \o (IF quick_opportunities > Len(allocation) * 2
         THEN <<"Portfolio heavy on short-term opportunities - consider longer-term balance">>
         ELSE <<>>)
      \o [k \in DOMAIN declining |->
            LET d == declining[k] IN "Monitor " \o d.sector \o " closely - showing declining trend"]

optimize_portfolio_raises(rows) == batch_analyze_investment_opportunities_raises(rows)

\* portfolio_id is climate_tech_<risk_profile>_<today as %Y%m%d>
PortfolioOptimization(capital_amount, risk_profile, now, profile, sector_trends, allocation) ==
  [portfolio_id |-> <<"climate_tech", risk_profile, now>>,
   total_capital |-> capital_amount,
   optimized_allocation |-> allocation,
   expected_portfolio_return |-> _calculate_portfolio_return(allocation, sector_trends),
   portfolio_risk_score |-> _calculate_portfolio_risk(allocation, sector_trends),
   diversification_score |-> _calculate_diversification_score(allocation),
   recommended_actions |-> _generate_portfolio_recommendations(
                             allocation, sector_trends, profile),
   rebalancing_suggestions |-> <<>>]

\* the portfolio from the opportunities and sector trends of the Layer 3A analyzers
PortfolioFrom(rows, capital_amount, risk_profile, now, opportunities, sector_trends) ==
  LET profile == strategy_profiles[risk_profile]
  IN  PortfolioOptimization(
        capital_amount, risk_profile, now, profile, sector_trends,
        _optimize_sector_allocation(rows, _filter_opportunities_by_risk(opportunities, profile),
                                    sector_trends, capital_amount, profile))

optimize_portfolio(rows, capital_amount, risk_profile, now) ==
  PortfolioFrom(rows, capital_amount, risk_profile, now,
                batch_analyze_investment_opportunities(rows), analyze_sector_trends(rows))

(* ---------------- SourceIntelligenceManager (Layer 2) ------------------ *)
\* DataSource(name, url, source_type, priority_score) with the dataclass defaults
DataSource(name, url, source_type, priority_score) ==
  [name |-> name, url |-> url, source_type |-> source_type,
   last_successful_scrape |-> <<>>, last_attempt |-> <<>>,
   success_rate |-> RInt(100), total_attempts |-> 0, successful_attempts |-> 0,
   priority_score |-> priority_score, is_active |-> TRUE,
   avg_articles_per_day |-> RInt(0), unique_content_ratio |-> RInt(100)]

\* register_source: a name that is already registered keeps its DataSource
register_source(srcs, name, url, source_type, priority_score) ==
  IF name \in DOMAIN srcs THEN srcs
  ELSE [n \in DOMAIN srcs \cup {name} |->
          IF n = name THEN DataSource(name, url, source_type, priority_score) ELSE srcs[n]]

default_sources ==
  <<<<"TechCrunch Climate", "https://techcrunch.com", "news", 90>>,
    <<"Climate Insider", "https://climateinsider.com", "news", 85>>,
    <<"CTVC", "https://www.ctvc.co", "news", 80>>,
    <<"Axios Energy", "https://axios.com", "news", 85>>,
    <<"Greentech Media", "https://greentechmedia.com", "news", 75>>,
    <<"Climate Capital", "https://climatecapital.co", "news", 70>>,
    <<"Energy Central", "https://energycentral.com", "news", 65>>,
    <<"ARPA-E", "https://arpa-e.energy.gov", "government_funding", 95>>,
    <<"DOE Newsroom", "https://energy.gov/news", "government_funding", 90>>,
    <<"NREL", "https://nrel.gov/news", "national_lab_research", 85>>,
    <<"ORNL", "https://ornl.gov/news", "national_lab_research", 85>>,
    <<"Breakthrough Energy Ventures", "https://breakthroughenergy.org", "vc_portfolio", 95>>,
    <<"Energy Impact Partners", "https://energyimpactpartners.com", "vc_portfolio", 90>>>>

RECURSIVE RegisterAll(_, _)
RegisterAll(srcs, entries) ==
  IF entries = <<>> THEN srcs
  ELSE RegisterAll(register_source(srcs, Head(entries)[1], Head(entries)[2],
                                   Head(entries)[3], Head(entries)[4]),
                   Tail(entries))

\* load_source_registry, called by __init__ on the empty registry
load_source_registry == RegisterAll(<<>>, default_sources)

\* variant of _update_priority_score without the clamp to 0..100
_update_priority_score_unclamped(source) ==
  LET volume == IF RLt(RInt(5), source.avg_articles_per_day) THEN 10
                ELSE IF RLt(RInt(2), source.avg_articles_per_day) THEN 5 ELSE 0
      unique == IF RLt(RInt(90), source.unique_content_ratio) THEN 10
                ELSE IF RLt(RInt(70), source.unique_content_ratio) THEN 5 ELSE 0
      strategic == IF source.source_type = "government_funding" THEN 15
                   ELSE IF source.source_type = "national_lab_research" THEN 10 ELSE 0
  IN  Trunc(RAdd(source.success_rate, RInt(volume + unique + strategic)))

\* _update_priority_score: the score of a source from its metrics
_update_priority_score(source) ==
  LET volume == IF RLt(RInt(5), source.avg_articles_per_day) THEN 10
                ELSE IF RLt(RInt(2), source.avg_articles_per_day) THEN 5 ELSE 0
      unique == IF RLt(RInt(90), source.unique_content_ratio) THEN 10
                ELSE IF RLt(RInt(70), source.unique_content_ratio) THEN 5 ELSE 0
      strategic == IF source.source_type = "government_funding" THEN 15
                   ELSE IF source.source_type = "national_lab_research" THEN 10 ELSE 0
      score == RAdd(source.success_rate, RInt(volume + unique + strategic))
  IN  MaxInt(0, MinInt(100, Trunc(score)))

\* the DataSource of source_name after record_scrape_attempt at day now
ScrapedSource(source, success, articles_found, now) ==
  LET total == source.total_attempts + 1
      successful == source.successful_attempts + (IF success THEN 1 ELSE 0)
      counted == [source EXCEPT
                    !.last_attempt = <<now>>,
                    !.total_attempts = total,
                    !.last_successful_scrape = IF success THEN <<now>> ELSE @,
                    !.successful_attempts = successful,
                    !.avg_articles_per_day =
                       IF success /\ total > 1
                       THEN RDiv(RAdd(@, RInt(articles_found)), RInt(2)) ELSE @,
                    !.success_rate = RMul(Rat(successful, total), RInt(100))]
  IN  [counted EXCEPT !.priority_score = _update_priority_score(counted)]

\* record_scrape_attempt: an unknown source is logged and nothing is recorded
record_scrape_attempt(srcs, source_name, success, articles_found, now) ==
  IF source_name \notin DOMAIN srcs THEN srcs
  ELSE [srcs EXCEPT ![source_name] = ScrapedSource(@, success, articles_found, now)]

\* re.sub(r'[^\w\s]', '', title.lower().strip())
title_normalized(title) ==
  CASE title = "Form Energy raises $50M" -> "form energy raises 50m"
    [] title = " form energy raises 50m!" -> "form energy raises 50m"
    [] title = "DOE backs Form Energy" -> "doe backs form energy"
    [] title = "NREL perovskite record" -> "nrel perovskite record"

\* re.sub(r'[^\w\s]', '', content.lower().strip()[:200])
content_normalized(content) ==
  CASE content = "Iron-air batteries." -> "ironair batteries"
    [] content = "IRON-AIR BATTERIES" -> "ironair batteries"
    [] content = "Long-duration storage award" -> "longduration storage award"
    [] content = "" -> ""

\* url.strip()
url_stripped(url) ==
  CASE url = "https://a.example/1" -> "https://a.example/1"
    [] url = " https://a.example/1 " -> "https://a.example/1"
    [] url = "https://b.example/2" -> "https://b.example/2"
    [] url = "https://c.example/3" -> "https://c.example/3"

\* _create_fingerprint; an md5 digest is written as the text it digests
_create_fingerprint(discovery, source_name, now) ==
  [source |-> source_name,
   title_hash |-> title_normalized(discovery.title),
   content_hash |-> content_normalized(discovery.content_preview),
   url_hash |-> url_stripped(discovery.url),
   discovery_date |-> now,
   companies_mentioned |-> discovery.companies_mentioned,
   funding_amount |-> discovery.funding_amount]

\* the three rules of _is_duplicate against one stored fingerprint
Matches(fingerprint, existing_fp) ==
  \/ fingerprint.url_hash = existing_fp.url_hash
  \/ /\ fingerprint.title_hash = existing_fp.title_hash
     /\ fingerprint.content_hash = existing_fp.content_hash
  \/ /\ fingerprint.companies_mentioned # <<>>
     /\ existing_fp.companies_mentioned # <<>>
     /\ Range(fingerprint.companies_mentioned) = Range(existing_fp.companies_mentioned)
     /\ fingerprint.funding_amount = existing_fp.funding_amount
     /\ Abs(fingerprint.discovery_date - existing_fp.discovery_date) <= 7

_is_duplicate(fingerprint, fingerprints) ==
  \E i \in DOMAIN fingerprints : Matches(fingerprint, fingerprints[i])

\* the loop of process_discoveries: the fingerprints and the unique discoveries after
\* the discoveries from position i on
RECURSIVE DetectDuplicates(_, _, _, _, _, _)
DetectDuplicates(discoveries, i, source_name, now, fingerprints, unique_discoveries) ==
  IF i > Len(discoveries)
  THEN [content_fingerprints |-> fingerprints, unique_discoveries |-> unique_discoveries]
  ELSE IF _is_duplicate(_create_fingerprint(discoveries[i], source_name, now), fingerprints)
       THEN DetectDuplicates(discoveries, i + 1, source_name, now, fingerprints,
                             unique_discoveries)
       ELSE DetectDuplicates(discoveries, i + 1, source_name, now,
                             Append(fingerprints,
                                    _create_fingerprint(discoveries[i], source_name, now)),
                             Append(unique_discoveries, discoveries[i]))

\* the sources after process_discoveries: the uniqueness ratio of a registered source
UniquenessUpdated(srcs, source_name, total_articles, unique_count) ==
  IF source_name \notin DOMAIN srcs THEN srcs
  ELSE [srcs EXCEPT ![source_name].unique_content_ratio =
          RDiv(RAdd(@, RMul(Rat(unique_count, total_articles), RInt(100))), RInt(2))]

\* process_discoveries: the manager's state and the returned list
process_discoveries(srcs, fingerprints, discoveries, source_name, now) ==
  IF discoveries = <<>>
  THEN [sources |-> srcs, content_fingerprints |-> fingerprints, unique_discoveries |-> <<>>]
  ELSE LET detected == DetectDuplicates(discoveries, 1, source_name, now, fingerprints, <<>>)
       IN  [sources |-> UniquenessUpdated(srcs, source_name, Len(discoveries),
                                          Len(detected.unique_discoveries)),
            content_fingerprints |-> detected.content_fingerprints,
            unique_discoveries |-> detected.unique_discoveries]

(* ---------------------- ConsolidatedAIProcessor ----------------------- *)
\* the keywords of the processor found in the lower-cased phrase p
Words(p) ==
  CASE p = "battery storage for the grid" -> {"battery", "grid", "storage"}
    [] p = "lithium battery storage on the grid" -> {"battery", "grid", "lithium", "storage"}
    [] p = "solar photovoltaic pv modules" -> {"ai", "photovoltaic", "pv", "solar"}
    [] p = "hydrogen fuel cell electrolysis" -> {"electrolysis", "fuel cell", "hydrogen"}
    [] p = "offshore wind turbine" -> {"wind"}
    [] p = "nuclear fusion tokamak plasma" -> {}
    [] p = "quantum computing" -> {}
    [] p = "biofuel from biomass" -> {}
    [] p = "software platform" -> {}
    [] p = "TRL 7" -> {}
    [] p = "TRL 2" -> {}
    [] p = "TRL 5" -> {}
    [] p = "TRL 9" -> {}
    [] p = "TRL 12" -> {}
    [] p = "demonstration pilot" -> {}
    [] p = "under development" -> {"ev"}
    [] p = "laboratory research" -> {}
    [] p = "funded by DOE and NREL" -> {}
    [] p = "Khosla Ventures" -> {"venture"}
    [] p = "Breakthrough Energy Ventures" -> {"energy", "venture"}
    [] p = "Lowercarbon Capital" -> {"carbon"}
    [] p = "a breakthrough innovative result" -> {}
    [] p = "advanced efficient clean manufacturing at scale" -> {"manufacturing"}
    [] p = "delay and concern over a problem" -> {}
    [] p = "direct air capture ccus carbon capture" -> {"ai", "carbon", "carbon capture", "ccus"}
    [] p = "power grid upgrade" -> {"grid"}
    [] p = "small modular reactor" -> {}
    [] p = "Acme raised a seed round" -> {"ai", "raised", "round", "seed"}
    [] p = "green marketing automation" -> {"automation", "green", "marketing"}

\* _is_relevant_for_source_type, 'government_research'
government_climate_keywords ==
  {"climate", "energy", "renewable", "carbon", "emission", "sustainable", "green",
   "cleantech"}

\* _is_relevant_for_source_type, 'news'
funding_keywords ==
  {"funding", "raised", "investment", "round", "series", "seed", "venture"}

\* _is_relevant_for_source_type, 'news'
climate_keywords ==
  {"climate", "energy", "renewable", "carbon", "emission", "sustainable", "green",
   "cleantech", "solar", "wind", "battery", "electric", "ev", "clean tech",
   "environmental"}

\* _detect_ai_focus
ai_keywords ==
  {"artificial intelligence", "machine learning", "ai", "ml", "deep learning",
   "neural network", "algorithm", "automation", "predictive"}

\* _validate_climate_tech_relevance
non_climate_ai_indicators ==
  {"marketing", "advertising", "customer data", "sales", "crm", "social media",
   "content creation", "game", "gaming", "entertainment", "fintech",
   "financial services", "banking", "insurance", "real estate", "healthcare", "medical",
   "pharmaceutical", "biotech", "education", "e-commerce", "retail", "fashion",
   "food delivery", "restaurant"}

\* _validate_climate_tech_relevance
strong_climate_keywords ==
  {"renewable energy", "solar", "wind", "battery", "electric vehicle", "carbon capture",
   "emission", "climate", "clean energy", "grid", "energy storage", "sustainability",
   "environmental monitoring"}

\* _classify_climate_sector: the sectors in the order of the dict
processor_sectors ==
  <<"Energy Storage", "Solar Energy", "Carbon Capture", "Clean Transportation",
    "Green Hydrogen", "Renewable Energy", "Climate Adaptation",
    "Sustainable Agriculture", "Circular Economy", "Clean Manufacturing">>

processor_sector_keywords(sector) ==
  CASE sector = "Energy Storage" -> {"battery", "storage", "grid", "lithium"}
    [] sector = "Solar Energy" -> {"solar", "photovoltaic", "pv"}
    [] sector = "Carbon Capture" -> {"carbon capture", "carbon removal", "ccus"}
    [] sector = "Clean Transportation" -> {"electric vehicle", "ev", "mobility", "transportation"}
    [] sector = "Green Hydrogen" -> {"hydrogen", "electrolysis", "fuel cell"}
    [] sector = "Renewable Energy" -> {"renewable", "wind", "geothermal"}
    [] sector = "Climate Adaptation" -> {"climate adaptation", "resilience", "flooding"}
    [] sector = "Sustainable Agriculture" -> {"agriculture", "farming", "food tech"}
    [] sector = "Circular Economy" -> {"recycling", "waste", "circular"}
    [] sector = "Clean Manufacturing" -> {"manufacturing", "industrial", "cement", "steel"}

\* the keywords found in content.lower(): no keyword spans two phrases
WordsIn(content) == UNION {Words(content[i]) : i \in DOMAIN content}

\* _is_relevant_for_source_type
_is_relevant_for_source_type(content, source_type) ==
  IF source_type = "government_research"
  THEN WordsIn(content) \cap government_climate_keywords # {}
  ELSE IF source_type = "vc_portfolio" THEN TRUE
  ELSE IF source_type = "news"
       THEN /\ WordsIn(content) \cap funding_keywords # {}
            /\ WordsIn(content) \cap climate_keywords # {}
       ELSE TRUE

\* _classify_climate_sector
_classify_climate_sector(content) ==
  SelectSeq(processor_sectors,
            LAMBDA sector : WordsIn(content) \cap processor_sector_keywords(sector) # {})

\* _detect_ai_focus
_detect_ai_focus(content) == WordsIn(content) \cap ai_keywords # {}

\* _extract_with_source_awareness: the keys of the extraction that the processor reads
\* again. qa tells whether the question-answering model answers with confidence or
\* every call to it raises; the government and portfolio paths never call it
_extract_with_source_awareness(content, source_type, qa) ==
  [source_type |-> source_type,
   funding_stage |->
      IF source_type = "government_research" THEN <<"Research Phase">>
      ELSE IF source_type = "vc_portfolio" THEN <<"Portfolio Company">>
      ELSE IF qa = "answers" THEN <<"Seed">> ELSE <<>>,
   answered |-> source_type = "news" /\ qa = "answers",
   climate_sectors |-> _classify_climate_sector(content),
   has_ai_focus |-> _detect_ai_focus(content)]

\* _validate_climate_tech_relevance: no extraction sets company_description, amount_usd
\* or original_amount
_validate_climate_tech_relevance(extracted_data, content, source_type) ==
  IF source_type \in {"government_research", "vc_portfolio"} THEN TRUE
  ELSE IF source_type # "news" THEN TRUE
  ELSE IF SelectSeq(extracted_data.climate_sectors,
                    LAMBDA s : s \notin {"General", "Other", "Unknown", "Tech"}) # <<>>
       THEN TRUE
  ELSE IF /\ extracted_data.has_ai_focus
          /\ WordsIn(content) \cap non_climate_ai_indicators # {}
          /\ WordsIn(content) \cap strong_climate_keywords = {}
       THEN FALSE
  ELSE FALSE

\* content.lower() and re.findall(pattern, content) raise on a NULL raw_text_content
process_single_deal_raises(deal) == ~deal.has_text

\* process_single_deal: the status it writes, the funding_stage it writes with the
\* extracted data, and its return value
process_single_deal(deal, qa) ==
  IF process_single_deal_raises(deal)
  THEN [status |-> "PROCESSING_ERROR", funding_stage |-> <<>>, returns |-> FALSE]
  ELSE IF ~_is_relevant_for_source_type(deal.raw_text_content, deal.source_type)
  THEN [status |-> "IRRELEVANT", funding_stage |-> <<>>, returns |-> TRUE]
  ELSE IF ~_validate_climate_tech_relevance(
             _extract_with_source_awareness(deal.raw_text_content, deal.source_type, qa),
             deal.raw_text_content, deal.source_type)
  THEN [status |-> "IRRELEVANT", funding_stage |-> <<>>, returns |-> TRUE]
  ELSE [status |-> "PROCESSED_AI",
        funding_stage |->
           _extract_with_source_awareness(deal.raw_text_content, deal.source_type,
                                          qa).funding_stage,
        returns |-> TRUE]

\* the status column: a row that no update has touched is NEW
StatusOf(statuses, deal_id) ==
  IF deal_id \in DOMAIN statuses THEN statuses[deal_id] ELSE "NEW"

\* .in_('source_type', ...).eq('status', 'NEW'): the ids of the pending deals
PendingDeals(rows, statuses, source_types) ==
  {i \in DOMAIN rows :
     /\ rows[i].source_type \in
           (IF source_types = <<>> THEN {"government_research", "vc_portfolio", "news"}
            ELSE Range(source_types))
     /\ StatusOf(statuses, i) = "NEW"}

\* .limit(limit) without an ORDER BY: any limit of the pending deals
Responses(rows, statuses, source_types, limit) ==
  {ids \in SUBSET PendingDeals(rows, statuses, source_types) :
     Cardinality(ids) = MinInt(limit, Cardinality(PendingDeals(rows, statuses, source_types)))}

\* the ids of a response in the order of the table
InTableOrder(rows, ids) ==
  SelectSeq([i \in DOMAIN rows |-> i], LAMBDA i : i \in ids)

\* variant of the loop of process_all_pending that stops at the first deal that fails
RECURSIVE ProcessDeals_until_error(_, _, _, _, _, _)
ProcessDeals_until_error(rows, statuses, log, deals, qa, processed_count) ==
  IF deals = <<>> \/ (Len(log) > 0 /\ log[Len(log)].status = "PROCESSING_ERROR")
  THEN [store |-> rows, status |-> statuses, status_log |-> log,
        processed_count |-> processed_count]
  ELSE LET done == process_single_deal(rows[Head(deals)], qa)
       IN  ProcessDeals_until_error(
              IF done.funding_stage = <<>> THEN rows
              ELSE [rows EXCEPT ![Head(deals)].funding_stage = done.funding_stage[1]],
              [i \in DOMAIN statuses \cup {Head(deals)} |->
                 IF i = Head(deals) THEN done.status ELSE statuses[i]],
              Append(log, [deal_id |-> Head(deals), status |-> done.status]),
              Tail(deals), qa,
              processed_count + (IF done.returns THEN 1 ELSE 0))

\* the loop of process_all_pending over the deals of the response
RECURSIVE ProcessDeals(_, _, _, _, _, _)
ProcessDeals(rows, statuses, log, deals, qa, processed_count) ==
  IF deals = <<>>
  THEN [store |-> rows, status |-> statuses, status_log |-> log,
        processed_count |-> processed_count]
  ELSE LET done == process_single_deal(rows[Head(deals)], qa)
       IN  ProcessDeals(
              IF done.funding_stage = <<>> THEN rows
              ELSE [rows EXCEPT ![Head(deals)].funding_stage = done.funding_stage[1]],
              [i \in DOMAIN statuses \cup {Head(deals)} |->
                 IF i = Head(deals) THEN done.status ELSE statuses[i]],
              Append(log, [deal_id |-> Head(deals), status |-> done.status]),
              Tail(deals), qa,
              processed_count + (IF done.returns THEN 1 ELSE 0))

\* process_all_pending on the response of the query
process_all_pending(rows, statuses, log, response, qa) ==
  ProcessDeals(rows, statuses, log, InTableOrder(rows, response), qa, 0)

(* ------------- DiscoveryPatternAnalyzer: sector aggregation ------------ *)
StageNames == {"demonstration", "development", "research", "unknown"}

\* the iteration orders a Python set of stage strings can have: the order follows
\* the per-process string hash seed
HashOrders ==
  {o \in [1..4 -> StageNames] : \A s \in StageNames : \E i \in 1..4 : o[i] = s}

\* int(np.sqrt(x)) for a rational x >= 0
IntSqrt(x) == CHOOSE k \in 0..600 : /\ k * k * x[2] <= x[1]
                                    /\ x[1] < (k + 1) * (k + 1) * x[2]

_aggregate_sector_patterns(patterns, hash_order) ==
  LET timelines == [k \in DOMAIN patterns |-> patterns[k].commercialization_timeline]
      mean == Rat(SumInt(timelines), Len(patterns))
      variance == RDiv(RSum([k \in DOMAIN timelines |->
                               LET t == timelines[k] IN RMul(RSub(RInt(t), mean), RSub(RInt(t), mean))]), RInt(Len(patterns)))
      avg_confidence == RDiv(RSum([k \in DOMAIN patterns |-> patterns[k].confidence_score]),
                             RInt(Len(patterns)))
      stages == [k \in DOMAIN patterns |-> patterns[k].research_stage]
      count(s) == Len(SelectSeq(stages, LAMBDA x : x = s))
      \* max(set(stages), key=stages.count): the first of the set, in its iteration
      \* order, among those with the highest count
      best == {i \in 1..4 : /\ count(hash_order[i]) > 0
                            /\ \A j \in 1..4 : count(hash_order[j]) <= count(hash_order[i])}
      most_common_stage == hash_order[CHOOSE i \in best : \A j \in best : i <= j]
  IN  [technology_sector |-> patterns[1].technology_sector,
       research_stage |-> most_common_stage,
       commercialization_timeline |-> Trunc(mean),
       government_agencies |-> UNION {Range(patterns[i].government_agencies) :
                                        i \in DOMAIN patterns},
       confidence_score |-> avg_confidence,
       pattern_count |-> Len(patterns),
       timeline_variance |-> IntSqrt(variance)]

analyze_government_patterns_raises(rows) ==
  \E i \in DOMAIN rows : rows[i].source_type = "government_research" /\ ~rows[i].has_text

\* one DiscoveryPattern per sector of an entry
DiscoveryPattern(content, tech_sectors, trl) ==
  [i \in DOMAIN tech_sectors |->
     [technology_sector |-> tech_sectors[i],
      research_stage |-> _classify_research_stage(content),
      commercialization_timeline |->
        _estimate_commercialization_timeline(content, tech_sectors, trl),
      government_agencies |-> _extract_agencies(content),
      confidence_score |-> _calculate_pattern_confidence(content, trl)]]

PatternsOf(content) ==
  DiscoveryPattern(content, _extract_tech_sectors(content), _extract_trl(content))

\* sector_analysis, a dictionary: its keys in order of first insertion, each
\* aggregated over the patterns appended to it
SectorPatterns(all_patterns, hash_order) ==
  LET sectors == SelectSeq([i \in DOMAIN all_patterns |-> i],
                   LAMBDA i : \A j \in 1..(i - 1) :
                      all_patterns[j].technology_sector # all_patterns[i].technology_sector)
  IN  [k \in DOMAIN sectors |->
         _aggregate_sector_patterns(
           SelectSeq(all_patterns, LAMBDA p :
             p.technology_sector = all_patterns[sectors[k]].technology_sector),
           hash_order)]

analyze_government_patterns(rows, hash_order) ==
  LET gov_data == RowsOfSource(rows, "government_research")
  IN  SectorPatterns(
        Flatten([k \in DOMAIN gov_data |-> PatternsOf(gov_data[k].raw_text_content)]),
        hash_order)

(* ---------------------- InvestmentStrategyOptimizer -------------------- *)
\* identify_emerging_trends and _analyze_investment_flow read every text
generate_investment_strategies_raises(rows) ==
  \/ \E i \in DOMAIN rows : ~rows[i].has_text
  \/ batch_analyze_investment_opportunities_raises(rows)

\* opp.company_name for opp in suitable_opportunities[:5]
KeyOpportunities(suitable_opportunities) ==
  [k \in DOMAIN Take(suitable_opportunities, 5) |-> suitable_opportunities[k].company_id]

_create_strategy_for_profile(profile_name, profile, sector_trends, opportunities) ==
  [risk_profile |-> profile_name,
   risk_score |-> profile.risk_tolerance,
   recommended_allocation |-> _calculate_sector_allocation(sector_trends, profile),
   investment_timeline |-> IF profile.timeline_preference = "medium_term" THEN 24 ELSE 36,
   key_opportunities |-> KeyOpportunities(_filter_opportunities_by_risk(opportunities, profile))]

\* for profile_name, profile in self.strategy_profiles.items()
StrategiesFrom(sector_trends, opportunities) ==
  [i \in 1..3 |->
     LET profile_name == <<"conservative", "moderate", "aggressive">>[i]
     IN  _create_strategy_for_profile(profile_name, strategy_profiles[profile_name],
                                      sector_trends, opportunities)]

generate_investment_strategies(rows) ==
  StrategiesFrom(analyze_sector_trends(rows), batch_analyze_investment_opportunities(rows))

(* ------------------------------ corpus --------------------------------- *)
Row(company_id, template) ==
  [company_id |-> company_id, source_type |-> template.source_type,
   has_text |-> template.has_text, raw_text_content |-> template.raw_text_content,
   funding_stage |-> template.funding_stage]

Template(source_type, has_text, content, funding_stage) ==
  [source_type |-> source_type, has_text |-> has_text, raw_text_content |-> content,
   funding_stage |-> funding_stage]

\* sample rows as the scrapers and the migration write them
Corpus ==
  {Template("government_research", TRUE,
            <<"lithium battery storage on the grid", "TRL 7", "demonstration pilot",
              "funded by DOE and NREL", "advanced efficient clean manufacturing at scale">>,
            "Research Phase"),
   Template("government_research", TRUE,
            <<"battery storage for the grid", "TRL 7", "funded by DOE and NREL",
              "advanced efficient clean manufacturing at scale">>, "Seed"),
   Template("government_research", TRUE,
            <<"quantum computing", "TRL 2", "laboratory research", "funded by DOE and NREL">>,
            "Research Phase"),
   Template("news", FALSE, <<>>, "Seed"),
   Template("vc_portfolio", TRUE,
            <<"battery storage for the grid", "Khosla Ventures",
              "Breakthrough Energy Ventures", "Lowercarbon Capital">>, "Portfolio Company"),
   Template("vc_portfolio", TRUE,
            <<"solar photovoltaic pv modules", "Khosla Ventures">>, "Seed"),
   Template("news", TRUE,
            <<"a breakthrough innovative result", "hydrogen fuel cell electrolysis">>, "Seed"),
   Template("news", TRUE,
            <<"delay and concern over a problem", "software platform">>, "Seed"),
   Template("news", TRUE, <<>>, "Seed"),
   Template("government_research", TRUE, <<"offshore wind turbine", "TRL 9">>, "Seed")}

\* government notices that each cover one forecaster sector
PortfolioCorpus ==
  {Template("government_research", TRUE, <<"lithium battery storage on the grid">>,
            "Research Phase"),
   Template("government_research", TRUE, <<"solar photovoltaic pv modules">>,
            "Research Phase"),
   Template("government_research", TRUE, <<"hydrogen fuel cell electrolysis">>,
            "Research Phase"),
   Template("government_research", TRUE, <<"offshore wind turbine">>, "Research Phase"),
   Template("government_research", TRUE,
            <<"quantum computing", "TRL 2", "funded by DOE and NREL">>, "Research Phase")}

CompanyIds(rows) == {rows[i].company_id : i \in DOMAIN rows}

Capitals == {-1000, 0, 1000000}

RiskProfiles == {"conservative", "moderate", "aggressive"}

\* arguments of _generate_investment_recommendation: weeks around its thresholds,
\* scores k / ScoreSteps, and risk-factor lists
WeeksGrid == {4, 11, 12, 13, 25, 26, 27, 52, 104, 520}

RiskFactorLists ==
  {<<>>, <<"Low market activity in sector">>,
   <<"Early-stage technology (TRL < 4)", "Negative news sentiment">>}

(* ------------------------------ actions -------------------------------- *)
NoCall == [op |-> "none", args |-> <<>>]

NoResult == [status |-> "none", value |-> <<>>]

Call(op, args) == [op |-> op, args |-> args]

\* a call returns value, or raises
Outcome(raises, value) ==
  IF raises THEN [status |-> "raised", value |-> <<>>] ELSE [status |-> "ok", value |-> value]

\* SchemaAdapter.insert_deal: _get_or_create_company finds the company or creates the
\* next one, then the row is appended to deals_new
insert_deal(corpus, max_rows, company_ids) ==
  /\ pc = "idle"
  /\ Len(store) < max_rows
  /\ \E template \in corpus, company_id \in company_ids :
        store' = Append(store, Row(company_id, template))
  /\ previous' = <<>>
  /\ UNCHANGED <<pc, call, result, today, manager, processor>>

Returns(c, r) ==
  /\ pc = "idle"
  /\ pc' = "returned"
  /\ call' = c
  /\ result' = r
  /\ UNCHANGED <<store, today, previous, manager, processor>>

Do_predict_commercialization_timeline ==
  \E company_id \in 1..MaxCompanies :
     Returns(Call("predict_commercialization_timeline", <<company_id>>),
             Outcome(predict_commercialization_timeline_raises(store, company_id),
                     predict_commercialization_timeline(store, company_id)))

Do_predict_optimal_timing ==
  \E company_id \in 1..MaxCompanies :
     Returns(Call("predict_optimal_timing", <<company_id>>),
             Outcome(predict_optimal_timing_raises(store, company_id),
                     predict_optimal_timing(store, company_id)))

Do_batch_analyze_investment_opportunities ==
  Returns(Call("batch_analyze_investment_opportunities", <<>>),
          Outcome(batch_analyze_investment_opportunities_raises(store),
                  batch_analyze_investment_opportunities(store)))

Do_analyze_sector_trends ==
  Returns(Call("analyze_sector_trends", <<>>),
          Outcome(FALSE, analyze_sector_trends(store)))

Do_analyze_government_patterns ==
  \E hash_order \in HashOrders :
     Returns(Call("analyze_government_patterns", <<>>),
             Outcome(analyze_government_patterns_raises(store),
                     analyze_government_patterns(store, hash_order)))

Do_generate_investment_strategies ==
  Returns(Call("generate_investment_strategies", <<>>),
          Outcome(generate_investment_strategies_raises(store),
                  generate_investment_strategies(store)))

optimize_portfolio_call(capitals) ==
  \E capital_amount \in capitals, risk_profile \in RiskProfiles :
     Returns(Call("optimize_portfolio", <<capital_amount, risk_profile>>),
             Outcome(optimize_portfolio_raises(store),
                     <<optimize_portfolio(store, capital_amount, risk_profile, today)>>))

Do_optimize_portfolio == optimize_portfolio_call(Capitals)

Do_optimize_portfolio_again == optimize_portfolio_call({1000000})

\* _generate_investment_recommendation on its own, over a grid of its arguments
Do_generate_investment_recommendation ==
  \E timing_weeks \in WeeksGrid, k \in 0..ScoreSteps, risk_factors \in RiskFactorLists :
     Returns(Call("_generate_investment_recommendation",
                  <<timing_weeks, Rat(k, ScoreSteps), risk_factors>>),
             Outcome(FALSE, <<_generate_investment_recommendation(
                                timing_weeks, Rat(k, ScoreSteps), risk_factors)>>))

\* the caller takes the return value
Return ==
  /\ pc = "returned"
  /\ pc' = "idle"
  /\ call' = NoCall
  /\ result' = NoResult
  /\ previous' = <<>>
  /\ UNCHANGED <<store, today, manager, processor>>

\* the caller takes the return value and keeps it to compare it with the next run
ReturnKeep ==
  /\ pc = "returned"
  /\ previous = <<>>
  /\ pc' = "idle"
  /\ previous' = <<call, result>>
  /\ call' = NoCall
  /\ result' = NoResult
  /\ UNCHANGED <<store, today, manager, processor>>

\* datetime.now(): the calendar day advances
Tick ==
  /\ pc = "idle"
  /\ today < MaxDay
  /\ today' = today + 1
  /\ UNCHANGED <<store, pc, call, result, previous, manager, processor>>

Init ==
  /\ store = <<>>
  /\ pc = "idle"
  /\ call = NoCall
  /\ result = NoResult
  /\ today = 1
  /\ previous = <<>>
  /\ sources = load_source_registry
  /\ content_fingerprints = <<>>
  /\ attempt_log = <<>>
  /\ submitted = <<>>
  /\ status = <<>>
  /\ models = "not_loaded"
  /\ status_log = <<>>

InsertTimingRow ==
  insert_deal(Corpus, MaxRecords, 1..MinInt(Cardinality(CompanyIds(store)) + 1, MaxCompanies))

\* every row belongs to a company of its own
InsertPortfolioRow == insert_deal(PortfolioCorpus, MaxPortfolioRecords, {Len(store) + 1})

\* Layer 3A: timelines, signals and timing over the rows of a few companies
Next ==
  \/ InsertTimingRow
  \/ Do_predict_commercialization_timeline
  \/ Do_predict_optimal_timing
  \/ Do_batch_analyze_investment_opportunities
  \/ Return

Spec == Init /\ [][Next]_vars

\* Layer 3B: portfolio optimization over one-row companies
NextPortfolio ==
  \/ InsertPortfolioRow
  \/ Do_optimize_portfolio
  \/ Return

SpecPortfolio == Init /\ [][NextPortfolio]_vars

\* Layer 3B: strategy generation
NextStrategy ==
  \/ InsertTimingRow
  \/ Do_analyze_sector_trends
  \/ Do_generate_investment_strategies
  \/ Return

SpecStrategy == Init /\ [][NextStrategy]_vars

\* two runs of the pipeline operations over the same rows
NextRuns ==
  \/ InsertTimingRow
  \/ Do_analyze_government_patterns
  \/ Do_predict_commercialization_timeline
  \/ Do_predict_optimal_timing
  \/ Do_analyze_sector_trends
  \/ Do_optimize_portfolio_again
  \/ ReturnKeep
  \/ Tick

SpecRuns == Init /\ [][NextRuns]_vars

\* the recommendation table on its own
NextRecommend ==
  \/ Do_generate_investment_recommendation
  \/ Return

SpecRecommend == Init /\ [][NextRecommend]_vars

\* texts for the per-record prediction: one per research stage, with and without
\* sector keywords
PredictionContents ==
  {<<"demonstration pilot">>, <<"under development">>, <<"laboratory research">>,
   <<"software platform">>,
   <<"solar photovoltaic pv modules", "demonstration pilot">>,
   <<"hydrogen fuel cell electrolysis", "under development">>,
   <<"nuclear fusion tokamak plasma", "laboratory research">>,
   <<"lithium battery storage on the grid">>}

\* the TRL values _extract_trl can return: None (0) and 1..9
TrlValues == 0..9

\* the prediction of one record from its text and the TRL extracted from it
Do_PredictionFrom ==
  \E content \in PredictionContents, trl \in TrlValues :
     Returns(Call("PredictionFrom", <<content, trl>>),
             Outcome(FALSE, <<PredictionFrom(1, content, _extract_tech_sectors(content), trl,
                                             _classify_research_stage(content))>>))

\* the per-record prediction on its own
NextPrediction ==
  \/ Do_PredictionFrom
  \/ Return
  \/ ReturnKeep

SpecPrediction == Init /\ [][NextPrediction]_vars

\* momentum scores of sector trends: _calculate_sector_momentum returns more than 0.1
\* (one source type at least) and at most 1
MomentumGrid == {<<3, 20>>, <<3, 10>>, <<1, 2>>, <<7, 10>>, <<9, 10>>, <<1, 1>>}

MaxSectors == 3

\* sector trends as analyze_sector_trends returns them: distinct sectors, sorted by
\* momentum_score, highest first
TrendLists ==
  {trends \in UNION {[1..n -> [sector : {"s"}, momentum_score : MomentumGrid]] :
                       n \in 1..MaxSectors} :
     \A i \in 1..(Len(trends) - 1) :
        RLe(trends[i + 1].momentum_score, trends[i].momentum_score)}

NamedTrends(trends) ==
  [i \in DOMAIN trends |->
     [sector |-> ClimateSectorOrder[i], momentum_score |-> trends[i].momentum_score]]

\* _calculate_sector_allocation on its own, over sorted lists of sector trends
Do_calculate_sector_allocation ==
  \E trends \in TrendLists, risk_profile \in RiskProfiles :
     Returns(Call("_calculate_sector_allocation", <<NamedTrends(trends), risk_profile>>),
             Outcome(FALSE, <<_calculate_sector_allocation(NamedTrends(trends),
                                                           strategy_profiles[risk_profile])>>))

NextAllocation ==
  \/ Do_calculate_sector_allocation
  \/ Return

SpecAllocation == Init /\ [][NextAllocation]_vars

\* rows of the three source categories for the signal analysis
SignalCorpus ==
  {Template("government_research", TRUE,
            <<"lithium battery storage on the grid", "TRL 7", "demonstration pilot",
              "funded by DOE and NREL", "advanced efficient clean manufacturing at scale">>,
            "Research Phase"),
   Template("government_research", TRUE,
            <<"quantum computing", "TRL 2", "laboratory research", "funded by DOE and NREL">>,
            "Research Phase"),
   Template("vc_portfolio", TRUE,
            <<"solar photovoltaic pv modules", "Khosla Ventures">>, "Seed"),
   Template("news", TRUE,
            <<"a breakthrough innovative result", "hydrogen fuel cell electrolysis">>, "Seed")}

MaxSignalRecords == 3

InsertSignalRow ==
  insert_deal(SignalCorpus, MaxSignalRecords,
              1..MinInt(Cardinality(CompanyIds(store)) + 1, MaxCompanies))

Do_analyze_investment_signals ==
  \E company_id \in 1..MaxCompanies :
     Returns(Call("analyze_investment_signals", <<company_id>>),
             Outcome(analyze_investment_signals_raises(store, company_id),
                     analyze_investment_signals(store, company_id)))

\* the signals of a company over rows of several source categories
NextSignals ==
  \/ InsertSignalRow
  \/ Do_analyze_investment_signals
  \/ Return

SpecSignals == Init /\ [][NextSignals]_vars

\* rows of one sector whose companies differ in opportunity score and in risk factors,
\* next to a row of another sector
SectorCorpus ==
  {Template("government_research", TRUE, <<"lithium battery storage on the grid">>,
            "Research Phase"),
   Template("government_research", TRUE,
            <<"lithium battery storage on the grid", "TRL 7", "demonstration pilot",
              "funded by DOE and NREL", "advanced efficient clean manufacturing at scale">>,
            "Research Phase"),
   Template("government_research", TRUE,
            <<"battery storage for the grid", "TRL 2", "funded by DOE and NREL">>,
            "Research Phase"),
   Template("vc_portfolio", TRUE,
            <<"battery storage for the grid", "Khosla Ventures",
              "Breakthrough Energy Ventures", "Lowercarbon Capital">>, "Portfolio Company"),
   Template("government_research", TRUE,
            <<"quantum computing", "TRL 2", "funded by DOE and NREL">>, "Research Phase")}

MaxSectorRecords == 4

InsertSectorRow == insert_deal(SectorCorpus, MaxSectorRecords, {Len(store) + 1})

\* Layer 3B: the companies chosen within a sector
NextSectors ==
  \/ InsertSectorRow
  \/ Do_optimize_portfolio_again
  \/ Return

SpecSectors == Init /\ [][NextSectors]_vars

\* rows of the three source categories over the forecaster's sectors; a vc_portfolio row
\* may have a NULL text column
TrendCorpus ==
  {Template("news", TRUE, <<"power grid upgrade">>, "Seed"),
   Template("news", TRUE,
            <<"a breakthrough innovative result", "hydrogen fuel cell electrolysis">>, "Seed"),
   Template("government_research", TRUE,
            <<"lithium battery storage on the grid", "TRL 7", "funded by DOE and NREL">>,
            "Research Phase"),
   Template("vc_portfolio", TRUE,
            <<"solar photovoltaic pv modules", "Khosla Ventures">>, "Seed"),
   Template("vc_portfolio", TRUE,
            <<"battery storage for the grid", "Khosla Ventures">>, "Seed"),
   Template("vc_portfolio", FALSE, <<>>, "Seed")}

MaxTrendRecords == 4

InsertTrendRow == insert_deal(TrendCorpus, MaxTrendRecords, {Len(store) + 1})

\* the sectors of the growth validation, one more of the forecaster, and an unknown one
Do_forecast_sector_growth ==
  \E sector \in {"energy_storage", "solar_energy", "hydrogen", "ai_climate", "space_mining"} :
     Returns(Call("forecast_sector_growth", <<sector>>),
             Outcome(forecast_sector_growth_raises(store, sector),
                     forecast_sector_growth(store, sector)))

Do_generate_market_outlook ==
  Returns(Call("generate_market_outlook", <<12>>),
          Outcome(generate_market_outlook_raises(store), <<generate_market_outlook(store, 12)>>))

\* the market trend forecaster over a growing deals_new table
NextTrends ==
  \/ InsertTrendRow
  \/ Do_analyze_sector_trends
  \/ Do_forecast_sector_growth
  \/ Do_generate_market_outlook
  \/ Return

SpecTrends == Init /\ [][NextTrends]_vars

\* companies whose first sector tag is no sector of the forecaster (biofuel, nuclear,
\* general_cleantech), next to one it knows
TagCorpus ==
  {Template("government_research", TRUE,
            <<"biofuel from biomass", "TRL 7", "funded by DOE and NREL">>, "Research Phase"),
   Template("government_research", TRUE,
            <<"small modular reactor", "TRL 7", "funded by DOE and NREL">>, "Research Phase"),
   Template("government_research", TRUE,
            <<"software platform", "TRL 7", "funded by DOE and NREL">>, "Research Phase"),
   Template("government_research", TRUE,
            <<"lithium battery storage on the grid", "power grid upgrade">>, "Research Phase")}

MaxTagRecords == 3

InsertTagRow == insert_deal(TagCorpus, MaxTagRecords, {Len(store) + 1})

\* Layer 3B: the sectors that receive capital
NextTags ==
  \/ InsertTagRow
  \/ Do_optimize_portfolio_again
  \/ Return

SpecTags == Init /\ [][NextTags]_vars

(* ------------------- SourceIntelligenceManager calls ------------------- *)
\* the scraped items that reach the manager
DiscoveryCorpus ==
  {[title |-> "Form Energy raises $50M", content_preview |-> "Iron-air batteries.",
    url |-> "https://a.example/1", companies_mentioned |-> <<"Form Energy">>,
    funding_amount |-> <<"$50M">>],
   [title |-> " form energy raises 50m!", content_preview |-> "IRON-AIR BATTERIES",
    url |-> "https://b.example/2", companies_mentioned |-> <<>>,
    funding_amount |-> <<>>],
   [title |-> "DOE backs Form Energy", content_preview |-> "Long-duration storage award",
    url |-> "https://c.example/3", companies_mentioned |-> <<"Form Energy">>,
    funding_amount |-> <<"$50M">>],
   [title |-> "NREL perovskite record", content_preview |-> "",
    url |-> " https://a.example/1 ", companies_mentioned |-> <<>>,
    funding_amount |-> <<>>]}

\* the batches of at most MaxBatchLen discoveries
Batches == UNION {[1..n -> DiscoveryCorpus] : n \in 0..MaxBatchLen}

\* two batches of one source that move its uniqueness ratio
SourceBatches ==
  {<<b[1]>> : b \in {c \in [1..2 -> DiscoveryCorpus] :
                       c[1].url = "https://a.example/1" /\ c[2].url = "https://b.example/2"}}
  \cup {c \in [1..2 -> DiscoveryCorpus] :
          c[1].url = "https://a.example/1" /\ c[2].url = "https://b.example/2"}

\* a registered national laboratory, a registered agency and a name that
\* load_source_registry does not know
SourceNames == {"NREL", "ARPA-E", "Canary Media"}

Do_register_source ==
  /\ pc = "idle"
  /\ \E name \in {"NREL", "Canary Media"}, priority_score \in {0, 100} :
        /\ sources' = register_source(sources, name, "https://example.org", "news",
                                      priority_score)
        /\ call' = Call("register_source", <<name, priority_score>>)
  /\ pc' = "returned"
  /\ result' = Outcome(FALSE, <<<<>>>>)
  /\ UNCHANGED <<store, today, previous, content_fingerprints, attempt_log, submitted,
                 processor>>

Do_record_scrape_attempt ==
  /\ pc = "idle"
  /\ Len(attempt_log) < MaxAttempts
  /\ \E source_name \in SourceNames, success \in BOOLEAN, articles_found \in {0, 12} :
        /\ sources' = record_scrape_attempt(sources, source_name, success, articles_found,
                                            today)
        /\ attempt_log' = Append(attempt_log,
                                 [source_name |-> source_name, success |-> success,
                                  registered |-> source_name \in DOMAIN sources])
        /\ call' = Call("record_scrape_attempt", <<source_name, success, articles_found>>)
  /\ pc' = "returned"
  /\ result' = Outcome(FALSE, <<<<>>>>)
  /\ UNCHANGED <<store, today, previous, content_fingerprints, submitted, processor>>

process_discoveries_call(batches, source_names) ==
  /\ pc = "idle"
  /\ Len(submitted) < MaxBatches
  /\ \E discoveries \in batches, source_name \in source_names :
        LET done == process_discoveries(sources, content_fingerprints, discoveries,
                                        source_name, today)
        IN  /\ sources' = done.sources
            /\ content_fingerprints' = done.content_fingerprints
            /\ submitted' = Append(submitted, discoveries)
            /\ call' = Call("process_discoveries", <<discoveries, source_name>>)
            /\ result' = Outcome(FALSE, <<done.unique_discoveries>>)
  /\ pc' = "returned"
  /\ UNCHANGED <<store, today, previous, attempt_log, processor>>

Do_process_discoveries ==
  process_discoveries_call(Batches, {"NREL", "DOE Technology Transfer"})

Do_process_source_discoveries == process_discoveries_call(SourceBatches, {"NREL"})

\* datetime.now(): the manager lives on for a week or more
Wait ==
  /\ pc = "idle"
  /\ \E days \in {7, 8} : today + days <= MaxClock /\ today' = today + days
  /\ UNCHANGED <<store, pc, call, result, previous, manager, processor>>

\* Layer 2: source health
NextSources ==
  \/ Do_register_source
  \/ Do_record_scrape_attempt
  \/ Do_process_source_discoveries
  \/ Return

SpecSources == Init /\ [][NextSources]_vars

\* Layer 2: duplicate detection
NextDiscoveries ==
  \/ Do_process_discoveries
  \/ Wait
  \/ Return

SpecDiscoveries == Init /\ [][NextDiscoveries]_vars

(* ------------------------ the AI processor run ------------------------- *)
\* deals as the scrapers insert them, waiting for the processor
PendingCorpus ==
  {Template("news", TRUE, <<"Acme raised a seed round", "battery storage for the grid">>,
            "Unknown"),
   Template("news", TRUE, <<"Acme raised a seed round", "green marketing automation">>,
            "Unknown"),
   Template("news", TRUE, <<"software platform">>, "Unknown"),
   Template("news", FALSE, <<>>, "Unknown"),
   Template("government_research", TRUE,
            <<"direct air capture ccus carbon capture", "TRL 7">>, "Unknown"),
   Template("vc_portfolio", TRUE, <<"Breakthrough Energy Ventures">>, "Unknown")}

MaxPendingRecords == 3

InsertPendingRow == insert_deal(PendingCorpus, MaxPendingRecords, {Len(store) + 1})

\* import of ai_processor_consolidated: pipeline(...) loads the two models, or raises
\* and the module calls exit()
LoadModels ==
  /\ pc = "idle"
  /\ models = "not_loaded"
  /\ models' \in {"loaded", "exited"}
  /\ UNCHANGED <<store, pc, call, result, today, previous, manager, status, status_log>>

Do_process_all_pending ==
  /\ pc = "idle"
  /\ models = "loaded"
  /\ \E limit \in {1, 10}, source_types \in {<<>>, <<"news">>}, qa \in {"answers", "raises"} :
        \E response \in Responses(store, status, source_types, limit) :
           LET done == process_all_pending(store, status, status_log, response, qa)
           IN  /\ store' = done.store
               /\ status' = done.status
               /\ status_log' = done.status_log
               /\ call' = Call("process_all_pending", <<limit, source_types, qa, response>>)
               /\ result' = Outcome(FALSE, <<done.processed_count>>)
  /\ pc' = "returned"
  /\ UNCHANGED <<today, previous, manager, models>>

\* Layer 2 to Layer 3: the processing of the pending deals
NextProcessor ==
  \/ InsertPendingRow
  \/ LoadModels
  \/ Do_process_all_pending
  \/ Return

SpecProcessor == Init /\ [][NextProcessor]_vars

(* ------------------------------ claims --------------------------------- *)
\* op has returned a value (it did not raise)
Returned(op) == pc = "returned" /\ call.op = op /\ result.status = "ok"

Percentages(allocation) == [k \in DOMAIN allocation |->
                              LET d == allocation[k] IN d.allocation_percentage]

\* C1: in every result of optimize_portfolio the per-sector allocation_percentage
\* values sum to at most 100 and, for capital_amount >= 0, the per-sector
\* total_allocation amounts sum to at most capital_amount.
C1_AllocationWithinCapital ==
  Returned("optimize_portfolio") =>
    LET allocation == result.value[1].optimized_allocation
    IN  /\ RLe(RSum(Percentages(allocation)), RInt(100))
        /\ call.args[1] >= 0 =>
             RLe(RSum([k \in DOMAIN allocation |->
                         LET d == allocation[k] IN d.total_allocation]), RInt(call.args[1]))

\* C2: after the cap-and-redistribute step of _calculate_sector_allocation no sector's
\* percentage exceeds sector_concentration_limit * 100, for every risk profile and
\* every list of sector trends.
C2_StrategyWithinConcentrationLimit ==
  Returned("generate_investment_strategies") =>
    \A i \in DOMAIN result.value :
      LET strategy == result.value[i]
          limit == RMul(strategy_profiles[strategy.risk_profile].sector_concentration_limit,
                        RInt(100))
      IN  \A j \in DOMAIN strategy.recommended_allocation :
            RLe(strategy.recommended_allocation[j].percentage, limit)

\* HHI of an allocation: the sum of the squared allocation fractions
HHI(allocation) ==
  RSum([k \in DOMAIN allocation |->
          LET d == allocation[k] IN RMul(RDiv(d.allocation_percentage, RInt(100)), RDiv(d.allocation_percentage, RInt(100)))])

\* C3: diversification_score = clamp((1 - HHI) * (sector_count / 10), 0, 1), so it lies
\* in [0, 1], and it is 0 for an empty allocation.
C3_DiversificationClamped ==
  Returned("optimize_portfolio") =>
    LET allocation == result.value[1].optimized_allocation
        score == result.value[1].diversification_score
        raw == RMul(RSub(<<1, 1>>, HHI(allocation)), Rat(Len(allocation), 10))
    IN  /\ REq(score, RMax(<<0, 1>>, RMin(<<1, 1>>, raw)))
        /\ RLe(<<0, 1>>, score) /\ RLe(score, <<1, 1>>)
        /\ allocation = <<>> => REq(score, <<0, 1>>)

\* C7: optimize_portfolio with capital_amount <= 0, or with no opportunity left after
\* risk filtering, returns an empty allocation together with a reason string, and
\* never raises.
C7_InfeasibleGivesEmptyAllocation ==
  (pc = "returned" /\ call.op = "optimize_portfolio") =>
    LET eligible == _filter_opportunities_by_risk(
                      batch_analyze_investment_opportunities(store),
                      strategy_profiles[call.args[2]])
    IN  /\ result.status = "ok"
        /\ (call.args[1] <= 0 \/ eligible = <<>>) =>
             /\ result.value[1].optimized_allocation = <<>>
             /\ result.value[1].recommended_actions # <<>>

InUnit(x) == RLe(<<0, 1>>, x) /\ RLe(x, <<1, 1>>)

TimingInRange(timing) ==
  /\ 4 <= timing.optimal_timing_weeks /\ timing.optimal_timing_weeks <= 520
  /\ InUnit(timing.timing_confidence)
  /\ InUnit(timing.opportunity_score)
  /\ \A i \in DOMAIN timing.investment_signals :
       LET signal == timing.investment_signals[i]
       IN  /\ InUnit(signal.strength)
           /\ InUnit(signal.confidence)
           /\ 4 <= signal.timeframe_weeks /\ signal.timeframe_weeks <= 520

\* the InvestmentTiming objects of the call that has returned
ReturnedTimings ==
  IF Returned("predict_optimal_timing") \/ Returned("batch_analyze_investment_opportunities")
    THEN result.value ELSE <<>>

\* C4: every InvestmentTiming returned by predict_optimal_timing has
\* 4 <= optimal_timing_weeks <= 520, timing_confidence and opportunity_score in [0, 1],
\* and every signal it carries has strength and confidence in [0, 1] and
\* 4 <= timeframe_weeks <= 520.
C4_TimingInRange ==
  \A i \in DOMAIN ReturnedTimings : TimingInRange(ReturnedTimings[i])

\* a timing fused from a government signal and at least two more, whose score met the cap
C4_Witness ==
  /\ Returned("predict_optimal_timing")
  /\ result.value # <<>>
  /\ Len(result.value[1].investment_signals) >= 3
  /\ result.value[1].investment_signals[1].signal_type = "government_research"
  /\ REq(result.value[1].opportunity_score, <<1, 1>>)

RecommendationLabel(recommendation) ==
  CASE recommendation = "STRONG BUY - High opportunity, immediate timing" -> "STRONG BUY"
    [] recommendation = "BUY - High opportunity, near-term timing" -> "BUY"
    [] recommendation = "WATCH - High opportunity, longer-term timing" -> "WATCH"
    [] recommendation = "CONSIDER - Moderate opportunity, good timing" -> "CONSIDER"
    [] recommendation = "WATCH - Moderate opportunity, monitor progress" -> "WATCH"
    [] recommendation = "MONITOR - Limited opportunity, track developments" -> "MONITOR"
    [] recommendation = "PASS - Low opportunity score" -> "PASS"
    [] OTHER -> "none"

\* the rows of the decision table, as the set of labels whose rule matches first
FirstMatch(score, weeks) ==
  LET rules == << [cond |-> RLt(<<8, 10>>, score) /\ weeks <= 12, label |-> "STRONG BUY"],
                  [cond |-> RLt(<<8, 10>>, score) /\ weeks <= 26, label |-> "BUY"],
                  [cond |-> RLt(<<8, 10>>, score),                label |-> "WATCH"],
                  [cond |-> RLt(<<6, 10>>, score) /\ weeks <= 26, label |-> "CONSIDER"],
                  [cond |-> RLt(<<6, 10>>, score),                label |-> "WATCH"],
                  [cond |-> RLt(<<4, 10>>, score),                label |-> "MONITOR"],
                  [cond |-> TRUE,                                 label |-> "PASS"] >>
      first == CHOOSE i \in DOMAIN rules :
                 rules[i].cond /\ \A j \in 1..(i - 1) : ~rules[j].cond
  IN  rules[first].label

MentionsBuy(recommendation) ==
  RecommendationLabel(recommendation) \in {"STRONG BUY", "BUY"}

\* C6: every InvestmentTiming from predict_optimal_timing or
\* batch_analyze_investment_opportunities whose opportunity_score exceeds 0.8 has a
\* recommendation containing the word BUY, whatever its optimal_timing_weeks.
C6_HighScoreIsBuy ==
  \A i \in DOMAIN ReturnedTimings :
     RLt(<<8, 10>>, ReturnedTimings[i].opportunity_score)
       => MentionsBuy(ReturnedTimings[i].recommendation)

\* C8: predict_commercialization_timeline never raises; for a company with no record it
\* returns null, and for a record that lacks raw_text it yields a null prediction with
\* confidence 0, not a populated prediction.
C8_MissingDataIsExplicit ==
  (pc = "returned" /\ call.op = "predict_commercialization_timeline") =>
    LET company_data == RowsOfCompany(store, call.args[1])
        lacks_text == company_data # <<>>
                        /\ (~company_data[1].has_text \/ company_data[1].raw_text_content = <<>>)
    IN  /\ result.status = "ok"
        /\ company_data = <<>> => result.value = <<>>
        /\ lacks_text =>
             \/ result.value = <<>>
             \/ REq(result.value[1].confidence_score, <<0, 1>>)

\* C9: two runs of a pipeline operation (analyze_government_patterns,
\* predict_commercialization_timeline, predict_optimal_timing, analyze_sector_trends,
\* optimize_portfolio) with the same arguments over the same store contents return
\* the same result in every field.
C9_Deterministic ==
  (pc = "returned" /\ previous # <<>> /\ previous[1] = call) => previous[2] = result

\* Python round(x): nearest integer, ties to even (x >= 0)
Round(a) ==
  LET f == a[1] \div a[2]
      r == RSub(a, RInt(f))
  IN  IF RLt(r, <<1, 2>>) THEN f
      ELSE IF RLt(<<1, 2>>, r) THEN f + 1
      ELSE IF f % 2 = 0 THEN f ELSE f + 1

\* the timing the fusion rule states: round, then the research floor, then the minimum
FusedTiming(signals, funding_stage) ==
  LET weighted_timing == RSum([k \in DOMAIN signals |->
                                 LET s == signals[k] IN RMul(RInt(s.timeframe_weeks), SignalWeight(s))])
      total_weight == RSum([k \in DOMAIN signals |-> SignalWeight(signals[k])])
      F == Round(RDiv(weighted_timing, total_weight))
  IN  IF total_weight = <<0, 1>> THEN 52
      ELSE MaxInt(4, IF StageMentionsResearch(funding_stage) THEN MaxInt(F, 26) ELSE F)

\* C10: for a non-empty list of signals _calculate_optimal_timing returns max(4, F),
\* F the rounded weighted average of the timeframes with weights weight * strength,
\* raised to at least 26 for a funding_stage containing 'research', and 52 when the
\* denominator is 0; signals sharing one timeframe T >= 4 at a non-research stage give T.
C10_FusionRounds ==
  Returned("predict_optimal_timing") /\ result.value # <<>> =>
    LET timing == result.value[1]
        signals == timing.investment_signals
        funding_stage == RowsOfCompany(store, call.args[1])[1].funding_stage
        T == signals[1].timeframe_weeks
    IN  /\ timing.optimal_timing_weeks = FusedTiming(signals, funding_stage)
        /\ ((\A i \in DOMAIN signals : signals[i].timeframe_weeks = T)
              /\ T >= 4 /\ ~StageMentionsResearch(funding_stage)
              /\ RSum([k \in DOMAIN signals |-> SignalWeight(signals[k])]) # <<0, 1>>)
             => timing.optimal_timing_weeks = T

\* the weeks table and the stage multipliers of the timeline estimate, as stated
WeeksOfTrl == <<520, 416, 312, 260, 208, 156, 104, 52, 26>>

StageMultiplier(stage) ==
  IF stage = "demonstration" THEN <<6, 10>>
  ELSE IF stage = "development" THEN <<8, 10>>
  ELSE <<1, 1>>

ReadinessOf(weeks) ==
  IF weeks <= 52 THEN "market_ready"
  ELSE IF weeks <= 104 THEN "near_term"
  ELSE IF weeks <= 208 THEN "medium_term"
  ELSE "long_term"

\* C11: for a record with a known TRL t and classified stage s, predicted_weeks is
\* max(12, round(W[t] * m(s))) and market_readiness follows the 52 / 104 / 208 week
\* thresholds; TRL 7 at demonstration stage gives 62 weeks and near_term.
C11_PredictionRounds ==
  (Returned("PredictionFrom") /\ call.args[2] \in 1..9) =>
     LET prediction == result.value[1]
         weeks == MaxInt(12, Round(RMul(RInt(WeeksOfTrl[call.args[2]]),
                                        StageMultiplier(prediction.research_stage))))
     IN  /\ prediction.predicted_funding_weeks = weeks
         /\ prediction.market_readiness = ReadinessOf(weeks)
         /\ (call.args[2] = 7 /\ prediction.research_stage = "demonstration"
               => /\ prediction.predicted_funding_weeks = 62
                  /\ prediction.market_readiness = "near_term")

\* C12: with the text (stage and sector tags) held fixed, a higher TRL never gives a
\* larger predicted_weeks.
C12_HigherTrlNotLater ==
  (/\ Returned("PredictionFrom")
   /\ previous # <<>>
   /\ previous[1].op = "PredictionFrom"
   /\ previous[1].args[1] = call.args[1]
   /\ previous[1].args[2] \in 1..9
   /\ call.args[2] \in 1..9
   /\ previous[1].args[2] < call.args[2])
  => result.value[1].predicted_funding_weeks <= previous[2].value[1].predicted_funding_weeks

\* a record predicted at TRL 5 and then, with the same text, at TRL 8: strictly earlier
C12_Witness ==
  /\ Returned("PredictionFrom")
  /\ previous # <<>>
  /\ previous[1].args[1] = call.args[1]
  /\ previous[1].args[2] = 5
  /\ call.args[2] = 8
  /\ result.value[1].predicted_funding_weeks < previous[2].value[1].predicted_funding_weeks

\* the percentages of the call's sector trends after normalisation, and the cap
NormalizedOfCall ==
  LET weights == SectorWeights(call.args[1], strategy_profiles[call.args[2]])
  IN  NormalizedWeights(weights, RSum(weights))

CapOfCall == RMul(strategy_profiles[call.args[2]].sector_concentration_limit, RInt(100))

ReturnedPercentages == [i \in DOMAIN result.value[1] |-> result.value[1][i].percentage]

MomentaOfCall == [i \in DOMAIN call.args[1] |-> call.args[1][i].momentum_score]

\* C13: the percentages of _calculate_sector_allocation sum to at most 100, and to
\* exactly 100 when no sector was capped or some sector is strictly below the cap after
\* capping; 70/30 under the moderate profile ends at 50/50.  (Percentages are exact
\* rationals here; the double-precision sums of the code are within a few units in the
\* last place of them.)
C13_AllocationConserved ==
  Returned("_calculate_sector_allocation") =>
     /\ RLe(RSum(ReturnedPercentages), RInt(100))
     /\ ((\/ \A i \in DOMAIN NormalizedOfCall : RLe(NormalizedOfCall[i], CapOfCall)
          \/ \E i \in DOMAIN NormalizedOfCall : RLt(NormalizedOfCall[i], CapOfCall))
         => RSum(ReturnedPercentages) = <<100, 1>>)
     /\ (MomentaOfCall = << <<7, 10>>, <<3, 10>> >> /\ call.args[2] = "moderate"
         => ReturnedPercentages = << <<50, 1>>, <<50, 1>> >>)

\* 70/30 under the moderate profile: 20 points move from the capped sector to the other
C13_Witness ==
  /\ Returned("_calculate_sector_allocation")
  /\ call.args[2] = "moderate"
  /\ NormalizedOfCall = << <<70, 1>>, <<30, 1>> >>
  /\ ReturnedPercentages = << <<50, 1>>, <<50, 1>> >>

\* C14: the excess removed by the cap goes to the sectors still under the cap in
\* proportion to their own percentages: for two recipients i and j,
\* share_i * percentage_j = share_j * percentage_i.
C14_ExcessProportional ==
  Returned("_calculate_sector_allocation") =>
     LET capped == Capped(NormalizedOfCall, CapOfCall)
         share(i) == RSub(ReturnedPercentages[i], capped[i])
     IN  \A i, j \in DOMAIN capped :
            (/\ RLt(<<0, 1>>, Excess(NormalizedOfCall, CapOfCall))
             /\ RLt(capped[i], CapOfCall)
             /\ RLt(capped[j], CapOfCall))
            => RMul(share(i), capped[j]) = RMul(share(j), capped[i])

\* position of a signal type in the fixed order of the four signals
SignalRank(signal_type) ==
  CASE signal_type = "government_research" -> 1
    [] signal_type = "vc_interest" -> 2
    [] signal_type = "market_activity" -> 3
    [] signal_type = "news_sentiment" -> 4
    [] OTHER -> 0

HasSignal(signals, signal_type) == \E i \in DOMAIN signals : signals[i].signal_type = signal_type

HasRecord(company_id, source_type) ==
  \E i \in DOMAIN store :
     store[i].company_id = company_id /\ store[i].source_type = source_type

\* C15: analyze_investment_signals returns at most four signals, at most one per type, in
\* the order government_research, vc_interest, market_activity, news_sentiment; the
\* government, VC and news signals are present exactly when the company has a record of
\* the matching source category.
C15_SignalsPerSource ==
  Returned("analyze_investment_signals") =>
     LET signals == result.value
         company_id == call.args[1]
     IN  /\ Len(signals) <= 4
         /\ \A i \in DOMAIN signals : SignalRank(signals[i].signal_type) \in 1..4
         /\ \A i \in 1..(Len(signals) - 1) :
               SignalRank(signals[i].signal_type) < SignalRank(signals[i + 1].signal_type)
         /\ HasSignal(signals, "government_research") <=> HasRecord(company_id, "government_research")
         /\ HasSignal(signals, "vc_interest") <=> HasRecord(company_id, "vc_portfolio")
         /\ HasSignal(signals, "news_sentiment") <=> HasRecord(company_id, "news")

\* a company with records of all three categories gets all four signals, while another
\* company of the store has none of its categories
C15_Witness ==
  /\ Returned("analyze_investment_signals")
  /\ Len(result.value) = 4
  /\ Len(store) = 3
  /\ HasRecord(call.args[1], "news")

\* C16: the government_research signal's timeframe_weeks and confidence are the
\* prediction and confidence of the government_research record that determines the
\* signal's strength and TRL, whatever other records the company has and in whatever
\* order.
C16_GovernmentSignalFromItsRecord ==
  (Returned("analyze_investment_signals") /\ HasRecord(call.args[1], "government_research")) =>
     LET entry == RowsOfSource(RowsOfCompany(store, call.args[1]), "government_research")[1]
         content == entry.raw_text_content
         prediction == PredictionFrom(call.args[1], content, _extract_tech_sectors(content),
                                      _extract_trl(content), _classify_research_stage(content))
         signal == result.value[1]
     IN  /\ signal.signal_type = "government_research"
         /\ signal.timeframe_weeks = prediction.predicted_funding_weeks
         /\ signal.confidence = prediction.confidence_score

\* (min(1, timing_weeks / 104) + (1 - opportunity_score)) / 2
PerOpportunityRisk(company) ==
  RDiv(RAdd(RMin(<<1, 1>>, Rat(company.timing_weeks, 104)),
            RSub(<<1, 1>>, company.opportunity_score)), RInt(2))

MeanOpportunityRisk(d) ==
  RDiv(RSum([k \in DOMAIN d.companies |-> PerOpportunityRisk(d.companies[k])]),
       RInt(Len(d.companies)))

\* C17 as stated: the risk score of a non-empty allocation is the sum over sectors of
\* the sector's allocation fraction times its mean per-opportunity risk, nothing else
\* enters it, and it lies in [0, 1].
C17_RiskIsWeightedOpportunityRisk ==
  (Returned("optimize_portfolio") /\ result.value[1].optimized_allocation # <<>>) =>
    LET allocation == result.value[1].optimized_allocation
        score == result.value[1].portfolio_risk_score
    IN  /\ REq(score, RSum([k \in DOMAIN allocation |->
                              LET d == allocation[k]
                              IN  RMul(RDiv(d.allocation_percentage, RInt(100)),
                                       MeanOpportunityRisk(d))]))
        /\ InUnit(score)

\* C17 amended: the risk score of a non-empty allocation is the average over sectors,
\* weighted by allocation_percentage, of the sector risk
\* (allocation_percentage / 100 + mean per-opportunity risk) / 2, and it lies in [0, 1].
C17_RiskIsWeightedSectorRisk ==
  (Returned("optimize_portfolio") /\ result.value[1].optimized_allocation # <<>>) =>
    LET allocation == result.value[1].optimized_allocation
        score == result.value[1].portfolio_risk_score
        total_weight == RSum(Percentages(allocation))
    IN  /\ RLt(<<0, 1>>, total_weight)
        /\ REq(RMul(score, total_weight),
               RSum([k \in DOMAIN allocation |->
                       LET d == allocation[k]
                       IN  RMul(d.allocation_percentage,
                                RDiv(RAdd(RDiv(d.allocation_percentage, RInt(100)),
                                          MeanOpportunityRisk(d)), RInt(2)))]))
        /\ InUnit(score)

\* a portfolio over two sectors of different allocation
C17_Witness ==
  /\ Returned("optimize_portfolio")
  /\ Len(result.value[1].optimized_allocation) >= 2
  /\ \E i, j \in DOMAIN result.value[1].optimized_allocation :
        ~REq(result.value[1].optimized_allocation[i].allocation_percentage,
             result.value[1].optimized_allocation[j].allocation_percentage)

\* the opportunities of the store that pass the risk filter of a profile:
\* risk-factor count / 5 <= risk_tolerance
FilteredOpportunities(risk_profile) ==
  SelectSeq(batch_analyze_investment_opportunities(store),
            LAMBDA opp : RLe(Rat(Len(opp.risk_factors), 5),
                             strategy_profiles[risk_profile].risk_tolerance))

\* the filtered opportunities whose company belongs to a sector
SectorOpportunities(risk_profile, sector) ==
  SelectSeq(FilteredOpportunities(risk_profile),
            LAMBDA opp : FirstSector(store, opp.company_id) = sector)

ListedIn(d, sector_opps) ==
  /\ Len(d.companies) = MinInt(3, Len(sector_opps))
  /\ \A i \in DOMAIN d.companies :
        \E j \in DOMAIN sector_opps :
           /\ sector_opps[j].company_id = d.companies[i].name
           /\ REq(sector_opps[j].opportunity_score, d.companies[i].opportunity_score)
  /\ \A j \in DOMAIN sector_opps :
        (\A i \in DOMAIN d.companies : d.companies[i].name # sector_opps[j].company_id) =>
           \A i \in DOMAIN d.companies :
              RLe(sector_opps[j].opportunity_score, d.companies[i].opportunity_score)

\* the shares are exact rationals; in double precision a sum of equal shares is within
\* an ulp of total_allocation
EvenSplit(d) ==
  /\ \A i \in DOMAIN d.companies :
        REq(d.companies[i].allocation, RDiv(d.total_allocation, RInt(Len(d.companies))))
  /\ REq(RSum([i \in DOMAIN d.companies |-> d.companies[i].allocation]), d.total_allocation)

\* C18: in the allocation returned by optimize_portfolio every company listed under a
\* sector passed the risk filter, a sector lists at most 3 companies, those of highest
\* opportunity_score among the sector's filtered opportunities, and the sector's capital
\* is split evenly among them, the company allocations summing to total_allocation.
C18_TopThreeEvenSplit ==
  Returned("optimize_portfolio") =>
    \A k \in DOMAIN result.value[1].optimized_allocation :
       /\ Len(result.value[1].optimized_allocation[k].companies) \in 1..3
       /\ ListedIn(result.value[1].optimized_allocation[k],
                   SectorOpportunities(call.args[2],
                                       result.value[1].optimized_allocation[k].sector))
       /\ EvenSplit(result.value[1].optimized_allocation[k])

\* a sector with four filtered opportunities of which the three listed ones score
\* strictly higher than the one left out
C18_Witness ==
  /\ Returned("optimize_portfolio")
  /\ \E k \in DOMAIN result.value[1].optimized_allocation :
        LET d == result.value[1].optimized_allocation[k]
            sector_opps == SectorOpportunities(call.args[2], d.sector)
        IN  /\ Len(d.companies) = 3
            /\ Len(sector_opps) = 4
            /\ \E j \in DOMAIN sector_opps :
                  \A i \in DOMAIN d.companies :
                     RLt(sector_opps[j].opportunity_score, d.companies[i].opportunity_score)

\* C19: every MarketTrend returned by analyze_sector_trends has momentum_score and
\* confidence in [0, 1], and every SectorForecast returned by forecast_sector_growth has
\* growth_prediction in [5, 100] and forecast_confidence in [0, 1].
C19_TrendAndForecastRanges ==
  /\ Returned("analyze_sector_trends") =>
        \A i \in DOMAIN result.value :
           InUnit(result.value[i].momentum_score) /\ InUnit(result.value[i].confidence)
  /\ Returned("forecast_sector_growth") =>
        \A i \in DOMAIN result.value :
           /\ RLe(RInt(5), result.value[i].growth_prediction)
           /\ RLe(result.value[i].growth_prediction, RInt(100))
           /\ InUnit(result.value[i].forecast_confidence)

\* a forecast of a sector with increasing investment flow and medium government support
C19_Witness ==
  /\ Returned("forecast_sector_growth")
  /\ result.value # <<>>
  /\ result.value[1].investment_flow_trend = "increasing"
  /\ _analyze_government_support(store, climate_sectors[call.args[1]]).support_level = "medium"
  /\ RLt(RInt(50), result.value[1].growth_prediction)

\* C20: trend_direction is 'rising' when momentum_score > 0.7, 'declining' when
\* momentum_score < 0.3, and 'stable' for every momentum_score from 0.3 to 0.7.
C20_DirectionBands ==
  Returned("analyze_sector_trends") =>
     \A i \in DOMAIN result.value :
        result.value[i].trend_direction =
           IF RLt(<<7, 10>>, result.value[i].momentum_score) THEN "rising"
           ELSE IF RLt(result.value[i].momentum_score, <<3, 10>>) THEN "declining"
           ELSE "stable"

\* word in action, for the five actions of _generate_sector_recommendation
ActionContains(action, word) ==
  CASE word = "Buy" -> action \in {"Strong Buy - High growth, low risk",
                                   "Buy - Good growth potential"}
    [] word = "Strong Buy" -> action = "Strong Buy - High growth, low risk"
    [] word = "Hold" -> action = "Hold - Moderate growth expected"
    [] word = "Monitor" -> action = "Monitor - Limited growth potential"
    [] word = "Caution" -> action = "Caution - High risk sector"
    [] OTHER -> FALSE

\* C21: in every sector recommendation of generate_market_outlook a growth_potential
\* above 40 comes with an action containing 'Buy', and a growth_potential below 15 with
\* an action containing 'Monitor' or 'Hold', whatever the risk level.
C21_GrowthMatchesAction ==
  Returned("generate_market_outlook") =>
     \A i \in DOMAIN result.value[1].investment_recommendations :
        LET rec == result.value[1].investment_recommendations[i]
        IN  /\ RLt(RInt(40), rec.growth_potential) => ActionContains(rec.action, "Buy")
            /\ RLt(rec.growth_potential, RInt(15)) =>
                  ActionContains(rec.action, "Monitor") \/ ActionContains(rec.action, "Hold")

\* the patterns of a sector, in the order analyze_government_patterns appends them
PatternsOfSector(sector) ==
  LET gov_data == RowsOfSource(store, "government_research")
  IN  SelectSeq(Flatten([k \in DOMAIN gov_data |-> PatternsOf(gov_data[k].raw_text_content)]),
                LAMBDA p : p.technology_sector = sector)

\* the most frequent element of a list, the first encountered among those that tie
FirstMode(stages) ==
  LET count(s) == Len(SelectSeq(stages, LAMBDA x : x = s))
  IN  stages[CHOOSE i \in DOMAIN stages :
                /\ \A j \in DOMAIN stages : count(stages[j]) <= count(stages[i])
                /\ \A j \in 1..(i - 1) : count(stages[j]) < count(stages[i])]

\* C23: dominant_stage of a sector is the most frequent classified stage among the
\* sector's patterns, and among stages that tie for the highest count the one
\* encountered first in the pattern list.
C23_DominantStageFirstMode ==
  Returned("analyze_government_patterns") =>
     \A k \in DOMAIN result.value :
        LET patterns == PatternsOfSector(result.value[k].technology_sector)
        IN  result.value[k].research_stage =
               FirstMode([i \in DOMAIN patterns |-> patterns[i].research_stage])

\* every record of the company has a text column
CompanyHasText(company_id) ==
  /\ RowsOfCompany(store, company_id) # <<>>
  /\ \A i \in DOMAIN store : store[i].company_id = company_id => store[i].has_text

\* C24: for a company with records (with text) the signals hold a market_activity signal
\* of strength >= 0.3, predict_optimal_timing returns an InvestmentTiming, and the
\* weights of the fusion sum to a strictly positive total, so the default of 52 weeks
\* is not taken.
C24_MarketSignalAlwaysPresent ==
  (pc = "returned" /\ call.op = "predict_optimal_timing" /\ CompanyHasText(call.args[1])) =>
     /\ result.status = "ok"
     /\ result.value # <<>>
     /\ result.value[1].investment_signals = analyze_investment_signals(store, call.args[1])
     /\ \E i \in DOMAIN result.value[1].investment_signals :
           /\ result.value[1].investment_signals[i].signal_type = "market_activity"
           /\ RLe(<<3, 10>>, result.value[1].investment_signals[i].strength)
     /\ RLt(<<0, 1>>, RSum([k \in DOMAIN result.value[1].investment_signals |->
                              RMul(signal_weights[result.value[1].investment_signals[k].signal_type],
                                   result.value[1].investment_signals[k].strength)]))

\* a company whose only record has an empty text: no sector keyword is detected and the
\* market_activity signal of general_cleantech has strength 0.5
C24_Witness ==
  /\ Returned("predict_optimal_timing")
  /\ CompanyHasText(call.args[1])
  /\ RowsOfCompany(store, call.args[1])[1].raw_text_content = <<>>
  /\ result.value # <<>>
  /\ \E i \in DOMAIN result.value[1].investment_signals :
        /\ result.value[1].investment_signals[i].signal_type = "market_activity"
        /\ REq(result.value[1].investment_signals[i].strength, <<1, 2>>)

\* C25: in every SectorForecast of forecast_sector_growth risk_level 'low' implies
\* adoption_stage 'growth', investment_flow_trend 'increasing', growth_prediction > 40
\* and the 'Strong Buy' action; the 'Buy' action comes only with risk_level 'medium';
\* adoption_stage 'decline' comes with risk_level 'high'.
C25_LowRiskIsStrongBuy ==
  Returned("forecast_sector_growth") =>
     \A i \in DOMAIN result.value :
        LET forecast == result.value[i]
        IN  /\ forecast.risk_level = "low" =>
                 /\ forecast.adoption_stage = "growth"
                 /\ forecast.investment_flow_trend = "increasing"
                 /\ RLt(RInt(40), forecast.growth_prediction)
                 /\ forecast.recommended_action = "Strong Buy - High growth, low risk"
            /\ forecast.recommended_action = "Buy - Good growth potential" =>
                 forecast.risk_level = "medium"
            /\ forecast.adoption_stage = "decline" => forecast.risk_level = "high"

\* a forecast of low risk
C25_Witness ==
  /\ Returned("forecast_sector_growth")
  /\ result.value # <<>>
  /\ result.value[1].risk_level = "low"
  /\ result.value[1].recommended_action = "Strong Buy - High growth, low risk"

\* C26: in every result of optimize_portfolio each sector's allocation_percentage is at
\* most sector_concentration_limit * 100 of the profile, and the recommendation to
\* reduce concentration in the top sector is not emitted.
C26_SectorWithinLimit ==
  Returned("optimize_portfolio") =>
     /\ \A k \in DOMAIN result.value[1].optimized_allocation :
           RLe(result.value[1].optimized_allocation[k].allocation_percentage,
               RMul(strategy_profiles[call.args[2]].sector_concentration_limit, RInt(100)))
     /\ \A i \in DOMAIN result.value[1].recommended_actions :
           result.value[1].recommended_actions[i] #
              "Consider reducing concentration in top sector"

\* a conservative portfolio whose top sector, of momentum 1.0, takes 39% under the
\* limit of 40%
C26_Witness ==
  /\ Returned("optimize_portfolio")
  /\ call.args[2] = "conservative"
  /\ \E k \in DOMAIN result.value[1].optimized_allocation :
        REq(result.value[1].optimized_allocation[k].allocation_percentage, RInt(39))

\* the first sector tag detected in the first record of a company
FirstTag(company_id) ==
  _extract_tech_sectors(RowsOfCompany(store, company_id)[1].raw_text_content)[1]

\* the first 8 sectors of analyze_sector_trends
TopTrendSectors ==
  {analyze_sector_trends(store)[i].sector :
     i \in 1..MinInt(8, Len(analyze_sector_trends(store)))}

RECURSIVE IsSubsequence(_, _)
IsSubsequence(s, t) ==
  \/ s = <<>>
  \/ /\ t # <<>>
     /\ IF Head(s) = Head(t) THEN IsSubsequence(Tail(s), Tail(t))
        ELSE IsSubsequence(s, Tail(t))

\* no two stored fingerprints share a url_hash or a (title_hash, content_hash) pair
NoTwoAlike ==
  \A i, j \in DOMAIN content_fingerprints :
     i < j =>
        /\ content_fingerprints[i].url_hash # content_fingerprints[j].url_hash
        /\ ~(/\ content_fingerprints[i].title_hash = content_fingerprints[j].title_hash
             /\ content_fingerprints[i].content_hash = content_fingerprints[j].content_hash)

\* process_discoveries returns some of its input, in the order of the input
ReturnsSubsequence ==
  Returned("process_discoveries") => IsSubsequence(result.value[1], call.args[1])

\* a call of process_discoveries on a batch that was processed before returns [] and
\* stores no fingerprint
ResubmissionIsEmpty ==
  (/\ pc = "idle"
   /\ pc' = "returned"
   /\ call'.op = "process_discoveries"
   /\ call'.args[1] \in Range(submitted))
  => (result'.value[1] = <<>> /\ content_fingerprints' = content_fingerprints)

\* C28: content_fingerprints never holds two entries with the same url_hash nor two with
\* the same (title_hash, content_hash); process_discoveries returns a subsequence of its
\* input; a batch that was already processed returns [] when it is submitted again and
\* leaves content_fingerprints unchanged.
C28_DuplicateFree ==
  [](NoTwoAlike /\ ReturnsSubsequence) /\ [][ResubmissionIsEmpty]_vars

\* the attempts of attempt_log that were recorded for the registered source name
AttemptsOf(name) ==
  {i \in DOMAIN attempt_log : attempt_log[i].source_name = name /\ attempt_log[i].registered}

\* the counters, the rate and the score of every registered source
\* (the rate is compared as an exact rational: in double precision
\* (successful / total) * 100 can differ from 100 * successful / total in the last bit)
SourceCountersHold ==
  \A name \in DOMAIN sources :
     /\ 0 <= sources[name].successful_attempts
     /\ sources[name].successful_attempts <= sources[name].total_attempts
     /\ sources[name].total_attempts = Cardinality(AttemptsOf(name))
     /\ sources[name].total_attempts > 0 =>
           REq(sources[name].success_rate,
               Rat(100 * sources[name].successful_attempts, sources[name].total_attempts))
     /\ 0 <= sources[name].priority_score
     /\ sources[name].priority_score <= 100

\* an attempt for an unknown name and the registration of a known name change no source
NoEffectOnSources ==
  (/\ pc = "idle"
   /\ pc' = "returned"
   /\ \/ call'.op = "record_scrape_attempt" /\ call'.args[1] \notin DOMAIN sources
      \/ call'.op = "register_source" /\ call'.args[1] \in DOMAIN sources)
  => sources' = sources

\* C29: after register_source and record_scrape_attempt calls every registered source has
\* 0 <= successful_attempts <= total_attempts, total_attempts is the number of attempts
\* recorded for it, success_rate is 100 * successful_attempts / total_attempts once an
\* attempt was recorded, and priority_score is in 0..100; an attempt for an unregistered
\* name changes no source and registering a registered name changes nothing.
C29_SourceHealthCounters ==
  []SourceCountersHold /\ [][NoEffectOnSources]_vars

\* NREL was scraped twice with one success (rate 50), an attempt for the
\* unregistered Canary Media was logged, and the last call registered NREL again
C29_Witness ==
  /\ Returned("register_source")
  /\ call.args[1] = "NREL"
  /\ sources["NREL"].total_attempts = 2
  /\ sources["NREL"].successful_attempts = 1
  /\ \E i \in DOMAIN attempt_log : ~attempt_log[i].registered

\* a run of process_all_pending in which every call to the question-answering model
\* raised
OutageRun == Returned("process_all_pending") /\ call.args[3] = "raises"

\* the news deals of a run under outage are processed by the heuristics, and no deal of
\* the response is left NEW
OutageRunCompletes ==
  OutageRun =>
     \A deal_id \in call.args[4] :
        /\ StatusOf(status, deal_id) # "NEW"
        /\ (store[deal_id].source_type = "news" /\ store[deal_id].has_text) =>
              StatusOf(status, deal_id) \in {"PROCESSED_AI", "IRRELEVANT"}

\* C22: when the text-understanding collaborator is unavailable, because it cannot be
\* loaded or because every call to it raises, the processor does not fail: the news
\* deals are extracted by keyword heuristics, none is marked PROCESSING_ERROR because of
\* the outage, and the rest of the batch is processed.
C22_FallsBackToHeuristics ==
  /\ models # "exited"
  /\ OutageRunCompletes

\* the status updates that a step appends to status_log
NewUpdates == SubSeq(status_log', Len(status_log) + 1, Len(status_log'))

\* one call of process_all_pending: call'.args[4] is the response of its query
ProcessAllPendingStep ==
  (/\ pc = "idle"
   /\ pc' = "returned"
   /\ call'.op = "process_all_pending")
  => /\ \A deal_id \in call'.args[4] :
           /\ StatusOf(status, deal_id) = "NEW"
           /\ Cardinality({k \in DOMAIN NewUpdates : NewUpdates[k].deal_id = deal_id}) = 1
           /\ StatusOf(status', deal_id) \in {"IRRELEVANT", "PROCESSED_AI", "PROCESSING_ERROR"}
           /\ process_single_deal_raises(store[deal_id]) <=>
                 StatusOf(status', deal_id) = "PROCESSING_ERROR"
     /\ \A k \in DOMAIN NewUpdates :
           /\ NewUpdates[k].deal_id \in call'.args[4]
           /\ NewUpdates[k].status = StatusOf(status', NewUpdates[k].deal_id)
     /\ \A deal_id \in DOMAIN store \ call'.args[4] :
           StatusOf(status', deal_id) = StatusOf(status, deal_id)
     /\ result'.value[1] =
           Cardinality({deal_id \in call'.args[4] :
                          ~process_single_deal_raises(store[deal_id])})

\* C30: process_all_pending selects only NEW deals; every selected deal gets exactly one
\* status update, to IRRELEVANT, PROCESSED_AI or PROCESSING_ERROR; a deal whose processing
\* raises becomes PROCESSING_ERROR and the deals after it are still processed; the
\* returned count is the number of deals processed without an exception.
C30_OneStatusUpdatePerDeal == [][ProcessAllPendingStep]_vars

\* a run over three deals: the first one raised, the later ones were processed, one of
\* them as IRRELEVANT, and the count is 2
C30_Witness ==
  /\ Returned("process_all_pending")
  /\ call.args[4] = {1, 2, 3}
  /\ status_log = <<[deal_id |-> 1, status |-> "PROCESSING_ERROR"],
                    [deal_id |-> 2, status |-> "IRRELEVANT"],
                    [deal_id |-> 3, status |-> "PROCESSED_AI"]>>
  /\ result.value[1] = 2
====
